---- MODULE Spec2Model ----
(***************************************************************************)
(* Model of the retrieval-augmented question answering pipeline:           *)
(*   app/embeddings/vectorstore.py  VectorStoreManager (index adapter)     *)
(*   app/retriever/query.py         Retriever                              *)
(*   app/summarizer/ai_summary.py   RAGPipeline                            *)
(*   api/routes/query.py            query_documents                        *)
(*                                                                         *)
(* Text is kept as a run-length encoded string: a sequence of runs         *)
(* [c |-> token, n |-> number of characters].  A one-character token ("x", *)
(* "SP", "NL", "COMMA", "DIGIT") with n = k stands for k copies of that    *)
(* character; a word token ("references", "university", ...) with n equal  *)
(* to the length of the word stands for the word, and with a smaller n for *)
(* its first n characters (what a slice leaves of it).                     *)
(***************************************************************************)
EXTENDS Integers, Sequences, FiniteSets, TLC

----------------------------------------------------------------------------
(* Bounds of the model *)

\* largest number of chunks the collection holds
MaxDocs == 2
\* distances the index reports are 0..MaxDist
MaxDist == 1
\* largest top_k a request carries
MaxTopK == 1
\* a configured fetch_k smaller than the default one
SmallFetchK == 1
\* a configured top_k smaller than the default one
SmallTopK == 1
\* a distance far beyond the others, which the index can also report
FarDist == 2000
\* most pages of a file given to chunk_text_by_pages
MaxPages == 2
MaxCleanLen == 5
MaxRanked == 2
MaxTasks == 2
\* a chunk_size and a chunk_overlap smaller than the default ones
SmallChunkSize == 150
SmallOverlap == 30

----------------------------------------------------------------------------
(* Program constants *)

\* query.py:61  len(t) < 200
MinLowValueLen == 200
\* query.py:64  t[:300]
HeadLen == 300
\* query.py:42  doc.page_content[:120]
DedupePrefixLen == 120
\* query.py:72  comma_ratio > 0.02, as the fraction CommaRatioNum / RatioDen
CommaRatioNum == 2
\* query.py:83  digit_ratio > 0.25, as the fraction DigitRatioNum / RatioDen
DigitRatioNum == 25
RatioDen == 100
\* query.py:83  len(t.split()) < 120
TableWordCap == 120
\* query.py:116  min(self.fetch_k, 50)
MmrKCap == 50
\* pymupdf_loader.py:173  len(chunk) < 120: the shortest chunk ingestion stores
MinChunkLen == 120
\* query.py:13  config default top_k
DefaultTopK == 5
\* query.py:19  default fetch_k floor and factor: max(20, top_k * 5)
FetchKFloor == 20
FetchKFactor == 5
\* pymupdf_loader.py:167  len(cleaned) < 80
MinPageLen == 80
\* pymupdf_loader.py:150-151  chunk_size: int = 1500, chunk_overlap: int = 250
DefaultChunkSize == 1500
DefaultChunkOverlap == 250
\* ai_summary.py:108  round(..., 3): relevance is kept in thousandths
RelevanceScale == 1000

\* Optional[T]: None is the empty set, a value v is {v}
None == {}
Some(v) == {v}
The(o) == CHOOSE v \in o : TRUE

----------------------------------------------------------------------------
(* Strings as sequences of runs *)

Run(c, n) == [c |-> c, n |-> n]
X(n) == Run("x", n)
SP == Run("SP", 1)
NL == Run("NL", 1)
COMMA == Run("COMMA", 1)
DIGIT(n) == Run("DIGIT", n)

WordLen(w) ==
    CASE w \in {"references", "References", "university", "University"} -> 10
      [] w = "bibliography" -> 12
      [] w \in {"openai", "google"} -> 6
      [] w = "microsoft" -> 9
      [] w = "is defined as" -> 13
      [] OTHER -> 1

W(w) == Run(w, WordLen(w))

\* str.lower() on one token
Lower(c) ==
    CASE c = "References" -> "references"
      [] c = "University" -> "university"
      [] OTHER -> c

IsSpace(c) == c \in {"SP", "NL"}

RECURSIVE TextLen(_)
TextLen(t) == IF t = <<>> THEN 0 ELSE Head(t).n + TextLen(Tail(t))

\* t[:k] for k >= 0
RECURSIVE Take(_, _)
Take(t, k) ==
    IF t = <<>> \/ k <= 0 THEN <<>>
    ELSE IF Head(t).n <= k THEN <<Head(t)>> \o Take(Tail(t), k - Head(t).n)
    ELSE <<Run(Head(t).c, k)>>

RECURSIVE LStrip(_)
LStrip(t) == IF t # <<>> /\ IsSpace(Head(t).c) THEN LStrip(Tail(t)) ELSE t

RECURSIVE RStrip(_)
RStrip(t) ==
    IF t # <<>> /\ IsSpace(t[Len(t)].c) THEN RStrip(SubSeq(t, 1, Len(t) - 1)) ELSE t

\* str.strip()
Strip(t) == RStrip(LStrip(t))

\* str.count(c) for a one-character token c
RECURSIVE CountChar(_, _)
CountChar(t, c) ==
    IF t = <<>> THEN 0
    ELSE (IF Head(t).c = c THEN Head(t).n ELSE 0) + CountChar(Tail(t), c)

\* w in t.lower(): the whole word occurs
ContainsWord(t, w) ==
    \E i \in 1..Len(t) : Lower(t[i].c) = w /\ t[i].n = WordLen(w)

\* len(t.split()): the maximal groups of non-whitespace runs
WordCount(t) ==
    Cardinality({i \in 1..Len(t) :
        /\ ~IsSpace(t[i].c)
        /\ (i = 1 \/ IsSpace(t[i - 1].c))})

Max(a, b) == IF a >= b THEN a ELSE b
Min(a, b) == IF a <= b THEN a ELSE b

----------------------------------------------------------------------------
(* Retriever: pure helpers *)

\* Retriever._is_low_value_chunk: the code as written
IsLowValueChunk(text) ==
    LET t == Strip(text)
        head == Take(t, HeadLen)
        len == Max(1, TextLen(t))
        institutional ==
            \/ ContainsWord(head, "openai")
            \/ ContainsWord(head, "university")
            \/ ContainsWord(head, "google")
            \/ ContainsWord(head, "microsoft")
    IN  \/ TextLen(t) < MinLowValueLen
        \/ ContainsWord(head, "references")
        \/ ContainsWord(head, "bibliography")
        \/ (CountChar(t, "COMMA") * RatioDen > CommaRatioNum * len /\ institutional)
        \/ /\ CountChar(t, "DIGIT") * RatioDen > DigitRatioNum * len
           /\ CountChar(t, "NL") > 0
           /\ WordCount(t) < TableWordCap

\* the key of Retriever._dedupe
DedupeKey(doc) == <<doc.source, doc.page, Take(doc.content, DedupePrefixLen)>>

\* Retriever._dedupe over a list of [doc, score] pairs
RECURSIVE DedupeFrom(_, _, _)
DedupeFrom(rest, seen, out) ==
    IF rest = <<>> THEN out
    ELSE LET key == DedupeKey(Head(rest).doc)
         IN  IF key \in seen
             THEN DedupeFrom(Tail(rest), seen, out)
             ELSE DedupeFrom(Tail(rest), seen \cup {key}, Append(out, Head(rest)))

\* a dedupe that keys on source and page alone
RECURSIVE DedupeByPage(_, _, _)
DedupeByPage(rest, seen, out) ==
    IF rest = <<>> THEN out
    ELSE LET key == <<Head(rest).doc.source, Head(rest).doc.page>>
         IN  IF key \in seen
             THEN DedupeByPage(Tail(rest), seen, out)
             ELSE DedupeByPage(Tail(rest), seen \cup {key}, Append(out, Head(rest)))

Dedupe_byPage(pairs) == DedupeByPage(pairs, {}, <<>>)

Dedupe(pairs) == DedupeFrom(pairs, {}, <<>>)

\* list.sort(key=lambda x: float(x[1])): stable, ascending
RECURSIVE InsertByScore(_, _)
InsertByScore(sorted, p) ==
    IF sorted = <<>> THEN <<p>>
    ELSE IF Head(sorted).score <= p.score
         THEN <<Head(sorted)>> \o InsertByScore(Tail(sorted), p)
         ELSE <<p>> \o sorted

\* the sort left out
SortByScore_noSort(pairs) == pairs

RECURSIVE SortByScore(_)
SortByScore(pairs) ==
    IF pairs = <<>> THEN <<>>
    ELSE InsertByScore(SortByScore(SubSeq(pairs, 1, Len(pairs) - 1)), pairs[Len(pairs)])

\* a slice that keeps one element too many
Slice_offByOne(s, k) == SubSeq(s, 1, Min(k + 1, Len(s)))

\* seq[:k] as Python slices: a negative k counts from the end
Slice(s, k) ==
    IF k >= 0 THEN SubSeq(s, 1, Min(k, Len(s)))
    ELSE SubSeq(s, 1, Max(0, Len(s) + k))

\* the list comprehensions of query.py:122 and query.py:133 keep these
KeepDoc(d) == ~IsLowValueChunk(d.content)
KeepPair(p) == ~IsLowValueChunk(p.doc.content)

\* the pool of the similarity strategy before truncation (query.py:133-137)
SimilarityPool(results) == SortByScore(Dedupe(SelectSeq(results, KeepPair)))

\* the pool of the mmr strategy before truncation (query.py:122)
MmrPool(docs) == SelectSeq(docs, KeepDoc)

\* the sentinel score 0.0 of query.py:127
WithZeroScore(docs) == [i \in 1..Len(docs) |-> [doc |-> docs[i], score |-> 0]]

\* truncation to top_k done before the filtering
RetrievePost_truncateFirst(strategy, raw, top_k) ==
    IF strategy = "mmr"
    THEN WithZeroScore(MmrPool(Slice(raw, top_k)))
    ELSE SimilarityPool(Slice(raw, top_k))

\* the value Retriever.retrieve returns (with_scores = True) from the
\* adapter's result: a list of docs under "mmr", of [doc, score] otherwise
RetrievePost(strategy, raw, top_k) ==
    IF strategy = "mmr"
    THEN WithZeroScore(Slice(MmrPool(raw), top_k))
    ELSE Slice(SimilarityPool(raw), top_k)

----------------------------------------------------------------------------
(* Sample chunk contents *)

\* 250 characters of prose
T_prose == <<X(40), SP, X(209)>>
\* 250 characters of prose with the same first 120 characters as T_prose
T_prose2 == <<X(40), SP, X(100), COMMA, SP, X(107)>>
\* 250 characters of prose that differ from T_prose within the first 120
T_prose3 == <<X(30), SP, X(219)>>
\* 299 characters, "References" inside the head, same first 120 as T_prose
T_refs == <<X(40), SP, X(100), SP, W("References"), SP, X(146)>>
\* a definition of 140 characters
T_def == <<X(20), SP, W("is defined as"), SP, X(105)>>
\* a numeric table of 202 characters
T_table == <<DIGIT(60), NL, DIGIT(60), SP, X(80)>>
\* an author list of 204 characters
T_authors == <<W("University"), COMMA, SP, X(20), COMMA, SP, X(20), COMMA, SP,
               X(20), COMMA, SP, X(20), COMMA, SP, X(104)>>

Doc(source, page, content) == [source |-> source, page |-> page, content |-> content]

Sources == {"a.pdf", "b.pdf"}

\* the chunks that can be in the collection
Docs ==
    { Doc("a.pdf", 1, T_prose), Doc("a.pdf", 1, T_prose2), Doc("a.pdf", 1, T_prose3),
      Doc("b.pdf", 1, T_prose),
      Doc("a.pdf", 1, T_refs), Doc("b.pdf", 2, T_def), Doc("b.pdf", 2, T_table),
      Doc("a.pdf", 2, T_authors) }

----------------------------------------------------------------------------
(* Ingestion: app/ingestion/pymupdf_loader.py *)

DOT == Run("DOT", 1)
HYPHEN == Run("HYPHEN", 1)
CR == Run("CR", 1)
\* a paragraph break "\n\n"
PARA == Run("NL", 2)

\* the tokens that stand for one repeated character
IsCharToken(c) == c \in {"x", "SP", "NL", "COMMA", "DIGIT", "DOT", "HYPHEN", "CR"}

\* \w of the regular expressions: letters, digits (every word token starts
\* and ends with a letter)
IsWordChar(c) == c \notin {"SP", "NL", "COMMA", "DOT", "HYPHEN", "CR"}

\* the canonical run-length form: no empty run, no two adjacent runs of the
\* same character
RECURSIVE Norm(_)
Norm(t) ==
    IF t = <<>> THEN <<>>
    ELSE IF Head(t).n = 0 THEN Norm(Tail(t))
    ELSE LET rest == Norm(Tail(t))
         IN  IF rest # <<>> /\ Head(rest).c = Head(t).c /\ IsCharToken(Head(t).c)
             THEN <<Run(Head(t).c, Head(t).n + Head(rest).n)>> \o Tail(rest)
             ELSE <<Head(t)>> \o rest

\* t[-k:] for k > 0
RECURSIVE TakeLast(_, _)
TakeLast(t, k) ==
    IF t = <<>> \/ k <= 0 THEN <<>>
    ELSE LET l == t[Len(t)]
         IN  IF l.n <= k
             THEN TakeLast(SubSeq(t, 1, Len(t) - 1), k - l.n) \o <<l>>
             ELSE <<Run(l.c, k)>>

\* clean_text, line 53: "\r\n" -> "\n", then "\r" -> "\n"
ReplaceCR(t) ==
    Norm([i \in 1..Len(t) |->
            IF t[i].c # "CR" THEN t[i]
            ELSE IF i < Len(t) /\ t[i + 1].c = "NL" THEN Run("NL", t[i].n - 1)
            ELSE Run("NL", t[i].n)])

\* clean_text, line 56: re.sub(r"(\w)-\n(\w)", r"\1\2"), matches taken left
\* to right without overlap; usable says the first run still has a character
\* the next match can start with
RECURSIVE Dehyphen(_, _)
Dehyphen(t, usable) ==
    IF Len(t) < 4 THEN t
    ELSE IF /\ usable
            /\ IsWordChar(t[1].c)
            /\ t[2] = HYPHEN
            /\ t[3] = NL
            /\ IsWordChar(t[4].c)
         THEN <<t[1]>> \o Dehyphen(SubSeq(t, 4, Len(t)), t[4].n >= 2)
         ELSE <<t[1]>> \o Dehyphen(Tail(t), TRUE)

\* clean_text, lines 60 and 63: a newline that stands alone becomes a space,
\* three or more newlines become two
MergeLines(t) ==
    Norm([i \in 1..Len(t) |->
            IF t[i].c # "NL" THEN t[i]
            ELSE IF t[i].n = 1 THEN SP
            ELSE PARA])

\* clean_text, line 66: two or more spaces become one
SquashSpaces(t) ==
    [i \in 1..Len(t) |-> IF t[i].c = "SP" THEN SP ELSE t[i]]

\* a normalizer that leaves the runs of spaces
clean_text_noSquash(text) ==
    Strip(MergeLines(Norm(Dehyphen(ReplaceCR(Norm(text)), TRUE))))

clean_text(text) ==
    Strip(SquashSpaces(MergeLines(Norm(Dehyphen(ReplaceCR(Norm(text)), TRUE)))))

IsNonEmpty(t) == t # <<>>

\* text.split("\n\n"): a run of n newlines holds n \div 2 separators and
\* leaves n % 2 newlines to the piece that follows
RECURSIVE ParagraphPieces(_, _)
ParagraphPieces(t, cur) ==
    IF t = <<>> THEN <<cur>>
    ELSE IF Head(t).c = "NL" /\ Head(t).n >= 2
         THEN <<cur>> \o ParagraphPieces(Tail(t), Norm(<<Run("NL", Head(t).n % 2)>>))
         ELSE ParagraphPieces(Tail(t), Append(cur, Head(t)))

split_into_paragraphs(text) ==
    LET pieces == ParagraphPieces(text, <<>>)
    IN  SelectSeq([i \in 1..Len(pieces) |-> Strip(pieces[i])], IsNonEmpty)

\* re.split(r"(?<=[.!?])\s+", t): the whitespace that follows a full stop
RECURSIVE SentencePieces(_, _)
SentencePieces(t, cur) ==
    IF t = <<>> THEN <<cur>>
    ELSE IF IsSpace(Head(t).c) /\ cur # <<>> /\ cur[Len(cur)].c = "DOT"
         THEN <<cur>> \o SentencePieces(LStrip(t), <<>>)
         ELSE SentencePieces(Tail(t), Append(cur, Head(t)))

split_into_sentences(text) ==
    LET pieces == SentencePieces(Strip(text), <<>>)
    IN  SelectSeq([i \in 1..Len(pieces) |-> Strip(pieces[i])], IsNonEmpty)

\* t.lstrip(".… "): leading full stops and spaces
RECURSIVE LStripDots(_)
LStripDots(t) ==
    IF t # <<>> /\ Head(t).c \in {"DOT", "SP"} THEN LStripDots(Tail(t)) ELSE t

RECURSIVE strip_leading_dots(_)
strip_leading_dots(text) ==
    LET t == LStrip(text)
    IN  IF t # <<>> /\ Head(t).c = "DOT" THEN strip_leading_dots(LStripDots(t)) ELSE t

\* the position of the last run of full stops, 0 when there is none
LastStop(t) ==
    LET S == {i \in 1..Len(t) : t[i].c = "DOT"}
    IN  IF S = {} THEN 0 ELSE CHOOSE i \in S : \A j \in S : j <= i

\* an overlap taken from the start of the previous chunk
apply_overlap_head(prev_chunk, overlap_chars) ==
    IF overlap_chars <= 0 \/ prev_chunk = <<>> THEN <<>>
    ELSE LET head == Strip(Take(prev_chunk, overlap_chars))
         IN  IF head = <<>> THEN <<>> ELSE <<head>>

\* apply_overlap: re.search(r"([.!?])\s+[^.!?]*$", tail) matches at the last
\* full stop when whitespace follows it
apply_overlap(prev_chunk, overlap_chars) ==
    IF overlap_chars <= 0 \/ prev_chunk = <<>> THEN <<>>
    ELSE LET tail == Strip(TakeLast(prev_chunk, overlap_chars))
             j == LastStop(tail)
             cut == IF j > 0 /\ j < Len(tail) /\ IsSpace(tail[j + 1].c)
                    THEN Strip(SubSeq(tail, j + 1, Len(tail)))
                    ELSE tail
         IN  IF cut = <<>> THEN <<>> ELSE <<cut>>

RECURSIVE SumLen(_)
SumLen(units) == IF units = <<>> THEN 0 ELSE TextLen(Head(units)) + SumLen(Tail(units))

\* current_len(): length including separators, counted as one character each
current_len(current) == SumLen(current) + Max(0, Len(current) - 1)

\* "\n\n".join(current).strip()
RECURSIVE JoinParas(_)
JoinParas(current) ==
    IF current = <<>> THEN <<>>
    ELSE IF Len(current) = 1 THEN Head(current)
    ELSE Head(current) \o <<PARA>> \o JoinParas(Tail(current))

JoinChunk(current) == Strip(Norm(JoinParas(current)))

\* the units pack_text_into_chunks appends, in order: a paragraph that fits
\* (the test adds 2 for the separator) or the sentences of a longer one
\* (the test adds 1)
RECURSIVE PackUnits(_, _)
PackUnits(paragraphs, chunk_size) ==
    IF paragraphs = <<>> THEN <<>>
    ELSE LET p == Head(paragraphs)
             sents == split_into_sentences(p)
         IN  (IF TextLen(p) <= chunk_size
              THEN <<[text |-> p, sep |-> 2]>>
              ELSE [i \in 1..Len(sents) |-> [text |-> sents[i], sep |-> 1]])
             \o PackUnits(Tail(paragraphs), chunk_size)

\* a loop that cuts a unit to the room left in the chunk
RECURSIVE PackLoop_truncate(_, _, _, _)
PackLoop_truncate(units, st, chunk_size, chunk_overlap) ==
    IF units = <<>> THEN st
    ELSE LET u == Head(units)
             room == chunk_size - current_len(st.current) - u.sep
             full == /\ st.current # <<>>
                     /\ current_len(st.current) + u.sep + TextLen(u.text) > chunk_size
             next == [st EXCEPT !.current =
                         Append(@, IF full THEN Take(u.text, Max(1, room)) ELSE u.text)]
         IN  PackLoop_truncate(Tail(units), next, chunk_size, chunk_overlap)

\* a loop that tests the size again after seeding and closes the seed alone
RECURSIVE PackLoop_closeSeed(_, _, _, _)
PackLoop_closeSeed(units, st, chunk_size, chunk_overlap) ==
    IF units = <<>> THEN st
    ELSE LET u == Head(units)
             full == /\ st.current # <<>>
                     /\ current_len(st.current) + u.sep + TextLen(u.text) > chunk_size
             chunk == JoinChunk(st.current)
             seed == apply_overlap(chunk, chunk_overlap)
             again == /\ seed # <<>>
                      /\ current_len(seed) + u.sep + TextLen(u.text) > chunk_size
             closed == Append(st.closed, [parts |-> st.current, chunk |-> chunk, seed |-> seed])
             next == IF full /\ again
                     THEN [closed |-> Append(closed, [parts |-> seed, chunk |-> JoinChunk(seed),
                                                      seed |-> <<>>]),
                           current |-> <<u.text>>]
                     ELSE IF full
                     THEN [closed |-> closed, current |-> Append(seed, u.text)]
                     ELSE [st EXCEPT !.current = Append(@, u.text)]
         IN  PackLoop_closeSeed(Tail(units), next, chunk_size, chunk_overlap)

\* the loop of pack_text_into_chunks; closed records, for every chunk closed
\* inside the loop, the list it was joined from, the chunk and the seed
\* apply_overlap made of it
RECURSIVE PackLoop(_, _, _, _)
PackLoop(units, st, chunk_size, chunk_overlap) ==
    IF units = <<>> THEN st
    ELSE LET u == Head(units)
             full == /\ st.current # <<>>
                     /\ current_len(st.current) + u.sep + TextLen(u.text) > chunk_size
             chunk == JoinChunk(st.current)
             seed == apply_overlap(chunk, chunk_overlap)
             next == IF full
                     THEN [closed |-> Append(st.closed,
                                       [parts |-> st.current, chunk |-> chunk, seed |-> seed]),
                           current |-> Append(seed, u.text)]
                     ELSE [st EXCEPT !.current = Append(@, u.text)]
         IN  PackLoop(Tail(units), next, chunk_size, chunk_overlap)

\* the state of pack_text_into_chunks when its loop is over
PackState(text, chunk_size, chunk_overlap) ==
    PackLoop(PackUnits(split_into_paragraphs(text), chunk_size),
             [closed |-> <<>>, current |-> <<>>], chunk_size, chunk_overlap)

\* the chunks list before the return statement (lines 141-142)
PackedChunks(st) ==
    [i \in 1..Len(st.closed) |-> st.closed[i].chunk]
    \o (IF st.current # <<>> THEN <<JoinChunk(st.current)>> ELSE <<>>)

pack_text_into_chunks(text, chunk_size, chunk_overlap) ==
    LET chunks == SelectSeq(PackedChunks(PackState(text, chunk_size, chunk_overlap)),
                            IsNonEmpty)
    IN  [i \in 1..Len(chunks) |-> strip_leading_dots(chunks[i])]

\* the minimum chunk length left out
PageDocuments_noMinLen(page, source_name, chunk_size, chunk_overlap) ==
    LET cleaned == clean_text(page.page_content)
        chunks == pack_text_into_chunks(cleaned, chunk_size, chunk_overlap)
    IN  IF TextLen(cleaned) < MinPageLen THEN <<>>
        ELSE [i \in 1..Len(chunks) |-> Doc(source_name, page.page_number, chunks[i])]

\* the page number taken one too small
PageDocuments_prevPage(page, source_name, chunk_size, chunk_overlap) ==
    LET cleaned == clean_text(page.page_content)
        chunks == pack_text_into_chunks(cleaned, chunk_size, chunk_overlap)
        kept == SelectSeq(chunks, LAMBDA c : TextLen(c) >= MinChunkLen)
    IN  IF TextLen(cleaned) < MinPageLen THEN <<>>
        ELSE [i \in 1..Len(kept) |-> Doc(source_name, page.page_number - 1, kept[i])]

\* the documents chunk_text_by_pages makes of one page
PageDocuments(page, source_name, chunk_size, chunk_overlap) ==
    LET cleaned == clean_text(page.page_content)
        chunks == pack_text_into_chunks(cleaned, chunk_size, chunk_overlap)
        kept == SelectSeq(chunks, LAMBDA c : TextLen(c) >= MinChunkLen)
    IN  IF TextLen(cleaned) < MinPageLen THEN <<>>
        ELSE [i \in 1..Len(kept) |-> Doc(source_name, page.page_number, kept[i])]

RECURSIVE chunk_text_by_pages(_, _, _, _)
chunk_text_by_pages(pages_content, source_name, chunk_size, chunk_overlap) ==
    IF pages_content = <<>> THEN <<>>
    ELSE PageDocuments(Head(pages_content), source_name, chunk_size, chunk_overlap)
         \o chunk_text_by_pages(Tail(pages_content), source_name, chunk_size, chunk_overlap)

\* extract_text_from_pdf on a file that can be read: the pages that have
\* text, numbered from 1
extract_text_from_pdf(texts) ==
    LET idx == SelectSeq([i \in 1..Len(texts) |-> i],
                         LAMBDA i : Strip(texts[i]) # <<>>)
    IN  [k \in 1..Len(idx) |-> [page_content |-> texts[idx[k]], page_number |-> idx[k]]]

\* load_and_process_pdf on a file that can be read
load_and_process_pdf(texts, source_name) ==
    chunk_text_by_pages(extract_text_from_pdf(texts), source_name,
                        DefaultChunkSize, DefaultChunkOverlap)

----------------------------------------------------------------------------
(* State *)

VARIABLES
    config,      \* Retriever.__init__: [strategy, top_k, fetch_k]
    collection,  \* the live collection: chunk -> number of copies stored
    stale,       \* VectorStoreManager.vectorstore is bound to a collection that is gone
    pc,          \* position of the call in flight
    req,         \* the call in flight: [op, top_k, source, docs]
    log,         \* what the call has done so far: index calls, reinits, model calls
    raw,         \* what the underlying index call returned to the adapter
    retrieved,   \* what Retriever.retrieve returned or raised
    outcome,     \* what the call returned or raised
    ingest,      \* the chunk_text_by_pages call in flight: arguments and result
    tasks,       \* the upload_and_process coroutines of the event loop
    disk         \* the upload directory: path -> file

vars == <<config, collection, stale, pc, req, log, raw, retrieved, outcome, ingest,
          tasks, disk>>

Strategies == {"mmr", "similarity"}

\* query.py:13  int(config.get("retrieval", "top_k", default=5))
ConfigTopK(file) == IF file.top_k = None THEN DefaultTopK ELSE The(file.top_k)

\* query.py:19  int(config.get("retrieval", "fetch_k", default=max(20, self.top_k * 5)))
ConfigFetchK(file) ==
    IF file.fetch_k = None
    THEN Max(FetchKFloor, ConfigTopK(file) * FetchKFactor)
    ELSE The(file.fetch_k)

\* the retrieval sections of the configuration file the model starts from
ConfigFiles ==
    { [strategy |-> s, top_k |-> None, fetch_k |-> Some(SmallFetchK)] : s \in Strategies }
    \cup { [strategy |-> s, top_k |-> Some(SmallTopK), fetch_k |-> None] : s \in Strategies }

\* Retriever.__init__
RetrieverInit(file) ==
    [strategy |-> file.strategy, top_k |-> ConfigTopK(file), fetch_k |-> ConfigFetchK(file)]

Configs == {RetrieverInit(f) : f \in ConfigFiles}

\* the Retriever of a configuration file without a retrieval section
DefaultConfig == RetrieverInit([strategy |-> "mmr", top_k |-> None, fetch_k |-> None])

\* an error is the set of phrases its message contains
ErrMissing == {"Collection", "does not exist"}
OtherErrors == {{"Collection", "timed out"}, {"embedding model", "does not exist"}}
ErrLLM == {"model", "unavailable"}

NoReq == [op |-> "none", top_k |-> None, source |-> None, docs |-> <<>>]
NoOutcome == [kind |-> "none"]
Ok(v) == [kind |-> "ok", value |-> v]
Raised(e) == [kind |-> "error", err |-> e]
NotRetrieved == [kind |-> "none"]

\* no chunk_text_by_pages call in flight
NoIngest ==
    [pages_content |-> <<>>, source_name |-> "", chunk_size |-> 0, chunk_overlap |-> 0,
     ran |-> FALSE, packs |-> <<>>, documents |-> <<>>]

RECURSIVE SumOver(_, _)
SumOver(coll, S) ==
    IF S = {} THEN 0
    ELSE LET d == CHOOSE d \in S : TRUE IN coll[d] + SumOver(coll, S \ {d})

\* collection.count()
Size(coll) == SumOver(coll, DOMAIN coll)

EmptyCollection == [d \in Docs |-> 0]

\* the stored entries an index query with this metadata filter ranges over
Entries(coll, filter) ==
    {e \in Docs \X (1..MaxDocs) :
        /\ e[2] <= coll[e[1]]
        /\ (filter = None \/ e[1].source \in filter)}

Injective(f) == \A i, j \in DOMAIN f : i # j => f[i] # f[j]

\* Chroma's answer to a search for k results: min(k, count) distinct stored
\* entries, in an order and with distances the model does not constrain
SearchResults(coll, k, filter) ==
    LET E == Entries(coll, filter)
        n == Min(k, Cardinality(E))
    IN  {[i \in 1..n |-> f[i][1]] : f \in {g \in [1..n -> E] : Injective(g)}}

\* the distances the index reports
Distances == (0..MaxDist) \cup {FarDist}

ScoredResults(coll, k, filter) ==
    UNION {{[i \in 1..Len(ds) |-> [doc |-> ds[i], score |-> sc[i]]] :
                sc \in [1..Len(ds) -> Distances]} :
            ds \in SearchResults(coll, k, filter)}

Collections == {c \in [Docs -> 0..MaxDocs] : Size(c) <= MaxDocs}

TypeOK ==
    /\ config \in Configs \cup {DefaultConfig}
    /\ collection \in Collections
    /\ stale \in BOOLEAN
    /\ pc \in {"idle", "call", "reinit", "retry", "llm", "done"}
    /\ req.op \in {"none", "query", "add_documents", "similarity_search",
                  "upload_and_process", "delete_by_source", "clear_all", "smoke_ingest", "pipeline_ingest",
                  "health_check"}
    /\ ingest.ran \in BOOLEAN
    /\ outcome.kind \in {"none", "ok", "error"}
    /\ retrieved.kind \in {"none", "ok", "error"}

\* the names of the uploaded files
Filenames == Sources \cup {"notes.txt"}

\* file.filename.endswith('.pdf')
EndsWithPdf(filename) == filename \in Sources

\* one temporary file for every upload
TempPath_shared(filename) == <<"uploads", "upload.pdf">>

\* document_service.py:27  os.path.join(self.upload_dir, file.filename)
TempPath(filename) == <<"uploads", filename>>

Paths == {TempPath(n) : n \in Filenames}

\* a path without file, and a file with the bytes written to it so far
Absent == [exists |-> FALSE, data |-> None]
Stored(data) == [exists |-> TRUE, data |-> data]

EmptyDisk == [p \in Paths |-> Absent]

Idle ==
    /\ pc = "idle"
    /\ req = NoReq
    /\ log = <<>>
    /\ raw = <<>>
    /\ retrieved = NotRetrieved
    /\ outcome = NoOutcome
    /\ ingest = NoIngest
    /\ tasks = <<>>
    /\ disk = EmptyDisk

Init ==
    /\ config \in Configs
    /\ collection = EmptyCollection
    /\ stale = FALSE
    /\ Idle

-----
(* Index adapter: VectorStoreManager *)

\* a weaker test on the message: any "does not exist" error counts
IsCollectionMissing_anyMissing(e) == "does not exist" \in e

\* VectorStoreManager._maybe_reinit_on_missing_collection: the test on the message
IsCollectionMissing(e) == "does not exist" \in e /\ "Collection" \in e

Event(ev, ok, err) == [ev |-> ev, ok |-> ok, err |-> err]

\* the adapter method a call goes through
AdapterOp(r, cfg) ==
    CASE r.op = "query" ->
            IF cfg.strategy = "mmr" THEN "mmr_search" ELSE "similarity_search_with_score"
      [] OTHER -> r.op

\* the k the adapter hands to the index
IndexK(r, cfg) ==
    CASE AdapterOp(r, cfg) = "mmr_search" -> Min(cfg.fetch_k, MmrKCap)
      [] AdapterOp(r, cfg) = "similarity_search_with_score" -> cfg.fetch_k
      [] OTHER -> IF r.top_k = None THEN cfg.top_k ELSE The(r.top_k)

\* the metadata filter the index query is given: query_documents forwards
\* question and top_k only, and no adapter method takes a filter
IndexFilterArg(r) == None

\* what the underlying call can return through a handle bound to the live collection
IndexReturns(r, cfg, coll) ==
    CASE AdapterOp(r, cfg) = "similarity_search_with_score" ->
            ScoredResults(coll, IndexK(r, cfg), IndexFilterArg(r))
      [] AdapterOp(r, cfg) \in {"mmr_search", "similarity_search"} ->
            SearchResults(coll, IndexK(r, cfg), IndexFilterArg(r))
      [] OTHER -> {r.docs}

\* Chroma.add_documents
RECURSIVE AddAll(_, _)
AddAll(coll, docs) ==
    IF docs = <<>> THEN coll
    ELSE AddAll([coll EXCEPT ![Head(docs)] = @ + 1], Tail(docs))

----------------------------------------------------------------------------
(* RAGPipeline.query *)

\* query.py:102-103
EffectiveTopK(r, cfg) == IF r.top_k = None THEN cfg.top_k ELSE The(r.top_k)

NotFoundText == "I could not find relevant information to answer your question."

\* ai_summary.py:85-89
NotFoundAnswer == [answer |-> NotFoundText, sources |-> <<>>, retrieved_docs |-> 0]

\* the empty check left out
IsEmptyRetrieval_never(docs) == FALSE

\* ai_summary.py:83: `if not retrieved_docs`
IsEmptyRetrieval(docs) == docs = <<>>

\* round(num / den, 3) in thousandths, for num, den > 0: the nearest
\* thousandth, a tie going to the even one
Round3(num, den) ==
    LET q == (num * RelevanceScale) \div den
        r == (num * RelevanceScale) % den
    IN  IF 2 * r > den \/ (2 * r = den /\ q % 2 = 1) THEN q + 1 ELSE q

\* ai_summary.py:105-110: rel of one retrieved (doc, score), in thousandths
Relevance(score) == IF score > 0 THEN Some(Round3(1, 1 + score)) ELSE None

\* ai_summary.py:97-119 (source, page and relevance of each citation)
Answer(text, docs) ==
    [answer |-> text,
     sources |-> [i \in 1..Len(docs) |->
                    [source |-> docs[i].doc.source, page |-> docs[i].doc.page,
                     relevance |-> Relevance(docs[i].score)]],
     retrieved_docs |-> Len(docs)]

LLMTexts == {"generated answer"}

---------------------------------------------------------------------------------------------------------------------------------------------------
(* Operations *)

Request(op, top_k, source, docs) ==
    [op |-> op, top_k |-> top_k, source |-> source, docs |-> docs]

TopKArgs == {None} \cup {Some(k) : k \in 1..MaxTopK}
SourceArgs == {None, Some("a.pdf")}

\* the chunks the add_documents calls of the model bring
Uploads == {Doc("a.pdf", 1, T_prose), Doc("b.pdf", 1, T_prose), Doc("b.pdf", 2, T_def)}
Batches == {<<>>} \cup {<<d>> : d \in Uploads} \cup {<<d, e>> : d, e \in Uploads}

Begin(r) ==
    /\ pc = "idle"
    /\ req' = r
    /\ UNCHANGED <<config, collection, stale, log, raw, retrieved, ingest, tasks, disk>>

\* POST /query with a source in SourceArgs: query_documents ->
\* RAGService.query_documents -> RAGPipeline.query -> Retriever.retrieve,
\* up to the adapter's first index call
QueryStarts(sources) ==
    \E k \in TopKArgs, src \in sources :
        /\ Begin(Request("query", k, src, <<>>))
        /\ pc' = "call"
        /\ outcome' = NoOutcome

StartQuery == QueryStarts(SourceArgs)

\* VectorStoreManager.add_documents, up to the first index call
StartAdd ==
    \E docs \in Batches :
        /\ Size(collection) + Len(docs) <= MaxDocs
        /\ Begin(Request("add_documents", None, None, docs))
        /\ IF docs = <<>>
           THEN pc' = "done" /\ outcome' = Ok(0)
           ELSE pc' = "call" /\ outcome' = NoOutcome

\* VectorStoreManager.similarity_search, up to the first index call
StartSearch ==
    \E k \in TopKArgs :
        /\ Begin(Request("similarity_search", k, None, <<>>))
        /\ pc' = "call"
        /\ outcome' = NoOutcome

\* page texts as PyMuPDF gives them
\* 250 characters on two lines: cleans to T_prose
RawProse == <<X(40), NL, X(209)>>
\* a definition with a double space and line breaks: cleans to T_def
RawDef == <<X(20), Run("SP", 2), W("is defined as"), NL, X(105), NL>>
\* 50 characters
RawShort == <<X(30), SP, X(19)>>
\* 100 characters: a page long enough, a chunk too short
RawMid == <<X(50), SP, X(49)>>
\* one paragraph of nine sentences of 200 characters, a line each
RawLong ==
    <<X(199), DOT, NL, X(199), DOT, NL, X(199), DOT, NL, X(199), DOT, NL, X(199), DOT, NL,
      X(199), DOT, NL, X(199), DOT, NL, X(199), DOT, NL, X(199), DOT>>
\* three paragraphs of 132, 140 and 130 characters, the first of two sentences
RawParas == <<X(60), DOT, SP, X(70), PARA, X(140), PARA, X(130)>>
\* three paragraphs of 48, 48 and 51 characters
RawThree == <<X(48), PARA, X(48), PARA, X(51)>>
\* 121 characters that start with an ellipsis of three full stops
RawDots == <<Run("DOT", 3), SP, X(117)>>
\* a page without text
RawBlank == <<NL>>

PageTexts ==
    {RawProse, RawDef, RawShort, RawMid, RawLong, RawParas, RawThree, RawDots, RawBlank}

\* the page texts of the files of the model
FileTexts == UNION {[1..n -> PageTexts] : n \in 1..MaxPages}

ChunkSizes == {SmallChunkSize, DefaultChunkSize}
ChunkOverlaps == {0, SmallOverlap, DefaultChunkOverlap}

\* a chunk_text_by_pages call before it ran
ChunkCall(pages_content, source_name, chunk_size, chunk_overlap) ==
    [pages_content |-> pages_content, source_name |-> source_name,
     chunk_size |-> chunk_size, chunk_overlap |-> chunk_overlap,
     ran |-> FALSE, packs |-> <<>>, documents |-> <<>>]

\* what the loop body of chunk_text_by_pages computes for one page: the
\* cleaned text, whether the page is skipped, and the pack_text_into_chunks
\* call (the lists it closed, the list left at the end, the chunks returned)
PagePack(page, chunk_size, chunk_overlap) ==
    LET cleaned == clean_text(page.page_content)
        skipped == TextLen(cleaned) < MinPageLen
        st == PackState(cleaned, chunk_size, chunk_overlap)
    IN  [page_number |-> page.page_number,
         cleaned |-> cleaned,
         skipped |-> skipped,
         closed |-> IF skipped THEN <<>> ELSE st.closed,
         current |-> IF skipped THEN <<>> ELSE st.current,
         chunks |-> IF skipped THEN <<>>
                    ELSE pack_text_into_chunks(cleaned, chunk_size, chunk_overlap)]

\* the call after it ran
ChunkRun(call) ==
    [call EXCEPT
        !.ran = TRUE,
        !.packs = [i \in 1..Len(call.pages_content) |->
                     PagePack(call.pages_content[i], call.chunk_size, call.chunk_overlap)],
        !.documents = chunk_text_by_pages(call.pages_content, call.source_name,
                                          call.chunk_size, call.chunk_overlap)]

\* document_service.py:39-43
UploadResult(filename, n) ==
    [status |-> "success", filename |-> filename, chunks_created |-> n]

\* what the call returns when add_documents returned the ids of its documents
AddResult(r) ==
    IF r.op = "upload_and_process" THEN UploadResult(The(r.source), Len(r.docs))
    ELSE Len(r.docs)

\* a file: its name, the text of its pages, and where reading it fails
File(name, texts, fault) == [name |-> name, texts |-> texts, fault |-> fault]

\* the files the model uploads: fitz.open fails on a file with fault "open",
\* page.get_text on one with fault "page"
Files ==
    { File("a.pdf", <<RawProse>>, "none"),
      File("b.pdf", <<RawProse, RawDef, RawShort>>, "none"),
      File("a.pdf", <<RawShort>>, "none"),
      File("a.pdf", <<RawBlank>>, "none"),
      File("a.pdf", <<RawMid>>, "none"),
      File("a.pdf", <<RawProse>>, "open"),
      File("b.pdf", <<RawProse, RawDef, RawShort>>, "page") }

ErrPage == {"cannot read", "page"}
\* doc.close() in the finally block when fitz.open has not bound doc
ErrUnbound == {"UnboundLocalError", "doc"}
\* test_smoke.py:42
ErrAssert == {"AssertionError", "No chunks created from PDF"}
\* run_full_pipeline.py:56
ErrExit == {"SystemExit", "2"}

\* the error extract_text_from_pdf leaves with: the one raised in the try
\* block, replaced by the one raised in the finally block if there is one
ExtractionError(fault) == IF fault = "open" THEN ErrUnbound ELSE ErrPage

\* load_and_process_pdf as chunk_text_by_pages call
LoadCall(f) ==
    ChunkRun(ChunkCall(extract_text_from_pdf(f.texts), f.name,
                       DefaultChunkSize, DefaultChunkOverlap))

\* an extraction failure answered with the chunks of the first page
UploadFails_partial ==
    /\ pc = "idle"
    /\ \E f \in {g \in Files : g.fault # "none"} :
        LET docs == load_and_process_pdf(<<f.texts[1]>>, f.name)
        IN  /\ Size(collection) + Len(docs) <= MaxDocs
            /\ req' = Request("upload_and_process", None, Some(f.name), docs)
            /\ log' = <<Event("extract", FALSE, ExtractionError(f.fault))>>
            /\ collection' = AddAll(collection, docs)
            /\ outcome' = Ok(UploadResult(f.name, Len(docs)))
    /\ pc' = "done"
    /\ UNCHANGED <<config, stale, raw, retrieved, ingest, tasks, disk>>

\* upload_and_process of a file that cannot be read: load_and_process_pdf
\* raises and the handler leaves through its finally block
UploadFails ==
    /\ pc = "idle"
    /\ \E f \in {g \in Files : g.fault # "none"} :
        /\ req' = Request("upload_and_process", None, Some(f.name), <<>>)
        /\ log' = <<Event("extract", FALSE, ExtractionError(f.fault))>>
        /\ outcome' = Raised(ExtractionError(f.fault))
    /\ pc' = "done"
    /\ UNCHANGED <<config, collection, stale, raw, retrieved, ingest, tasks, disk>>

\* an upload that refuses a file without chunks
StartUpload_rejectEmpty ==
    /\ pc = "idle"
    /\ \E f \in {g \in Files : g.fault = "none"} :
        \E call \in {LoadCall(f)} :
            /\ Size(collection) + Len(call.documents) <= MaxDocs
            /\ req' = Request("upload_and_process", None, Some(f.name), call.documents)
            /\ ingest' = call
            /\ IF call.documents = <<>>
               THEN pc' = "done" /\ outcome' = Raised(ErrAssert)
               ELSE pc' = "call" /\ outcome' = NoOutcome
    /\ log' = <<Event("extract", TRUE, {})>>
    /\ UNCHANGED <<config, collection, stale, raw, retrieved, tasks, disk>>

\* upload_and_process of a readable file, up to the index call of
\* add_documents; add_documents returns [] without one for an empty list
StartUpload ==
    /\ pc = "idle"
    /\ \E f \in {g \in Files : g.fault = "none"} :
        \E call \in {LoadCall(f)} :
            /\ Size(collection) + Len(call.documents) <= MaxDocs
            /\ req' = Request("upload_and_process", None, Some(f.name), call.documents)
            /\ ingest' = call
            /\ IF call.documents = <<>>
               THEN pc' = "done" /\ outcome' = Ok(UploadResult(f.name, 0))
               ELSE pc' = "call" /\ outcome' = NoOutcome
    /\ log' = <<Event("extract", TRUE, {})>>
    /\ UNCHANGED <<config, collection, stale, raw, retrieved, tasks, disk>>

\* the number of stored chunks with this source
SourceCount(coll, source) == SumOver(coll, {d \in DOMAIN coll : d.source = source})

\* a delete that removes nothing
WithoutSource_none(coll, source) == coll

\* a delete that ignores the source
WithoutSource_all(coll, source) == [d \in DOMAIN coll |-> 0]

\* collection.delete(ids=...) with the ids collection.get(where={"source": ...}) gave
WithoutSource(coll, source) ==
    [d \in DOMAIN coll |-> IF d.source = source THEN 0 ELSE coll[d]]

\* a direct operation on the collection (delete_by_source, clear_all): it
\* fails on the get through a stale handle, can fail on the get or on the
\* delete otherwise, and else removes what `after` leaves out and returns the
\* number of removed chunks; the delete is not called when nothing is to remove
DirectDelete(r, after) ==
    /\ pc = "idle"
    /\ req' = r
    /\ pc' = "done"
    /\ LET n == Size(collection) - Size(after)
       IN  \/ /\ stale
              /\ log' = <<Event("get", FALSE, ErrMissing)>>
              /\ outcome' = Raised(ErrMissing)
              /\ collection' = collection
           \/ /\ ~stale
              /\ \E e \in OtherErrors :
                    /\ log' \in {<<Event("get", FALSE, e)>>} \cup
                                (IF n > 0
                                 THEN {<<Event("get", TRUE, {}), Event("delete", FALSE, e)>>}
                                 ELSE {})
                    /\ outcome' = Raised(e)
              /\ collection' = collection
           \/ /\ ~stale
              /\ log' = IF n > 0
                        THEN <<Event("get", TRUE, {}), Event("delete", TRUE, {})>>
                        ELSE <<Event("get", TRUE, {})>>
              /\ outcome' = Ok(n)
              /\ collection' = after
    /\ UNCHANGED <<config, stale, raw, retrieved, ingest, tasks, disk>>

\* DocumentService.delete_by_source
DeleteBySource ==
    \E s \in Sources :
        DirectDelete(Request("delete_by_source", None, Some(s), <<>>),
                     WithoutSource(collection, s))

\* a clear_all that deletes the collection itself
ClearAll_dropsCollection ==
    /\ pc = "idle" /\ ~stale
    /\ req' = Request("clear_all", None, None, <<>>)
    /\ pc' = "done"
    /\ log' = <<Event("delete", TRUE, {})>>
    /\ outcome' = Ok(Size(collection))
    /\ collection' = EmptyCollection
    /\ stale' = TRUE
    /\ UNCHANGED <<config, raw, retrieved, ingest, tasks, disk>>

\* DocumentService.clear_all
ClearAll ==
    DirectDelete(Request("clear_all", None, None, <<>>), EmptyCollection)

\* the scripts that ingest a file again after deleting the chunks of its name
RoundOps == {"smoke_ingest", "pipeline_ingest"}

\* test_smoke.py main, lines 37-43: _delete_by_source, which raises what the
\* collection raises, then load_and_process_pdf and the assertion on its
\* result; add_documents follows as the index call
SmokeStart ==
    /\ pc = "idle"
    /\ \E f \in Files :
        \E call \in {LoadCall(f)} :
        \E docs \in {IF f.fault = "none" THEN call.documents ELSE <<>>} :
        \E deleted \in {WithoutSource(collection, f.name)} :
        \E gone \in {IF deleted = collection THEN <<Event("get", TRUE, {})>>
                      ELSE <<Event("get", TRUE, {}), Event("delete", TRUE, {})>>} :
            /\ Size(deleted) + Len(docs) <= MaxDocs
            /\ req' = Request("smoke_ingest", None, Some(f.name), docs)
            /\ \/ /\ stale
                  /\ log' = <<Event("get", FALSE, ErrMissing)>>
                  /\ outcome' = Raised(ErrMissing)
                  /\ pc' = "done"
                  /\ UNCHANGED <<collection, ingest>>
               \/ /\ ~stale
                  /\ \E e \in OtherErrors :
                        /\ log' = <<Event("get", FALSE, e)>>
                        /\ outcome' = Raised(e)
                  /\ pc' = "done"
                  /\ UNCHANGED <<collection, ingest>>
               \/ /\ ~stale /\ f.fault # "none"
                  /\ log' = gone \o <<Event("extract", FALSE, ExtractionError(f.fault))>>
                  /\ outcome' = Raised(ExtractionError(f.fault))
                  /\ pc' = "done"
                  /\ collection' = deleted
                  /\ UNCHANGED ingest
               \/ /\ ~stale /\ f.fault = "none"
                  /\ log' = gone \o <<Event("extract", TRUE, {})>>
                  /\ collection' = deleted
                  /\ ingest' = call
                  /\ IF docs = <<>>
                     THEN pc' = "done" /\ outcome' = Raised(ErrAssert)
                     ELSE pc' = "call" /\ outcome' = NoOutcome
    /\ UNCHANGED <<config, stale, raw, retrieved, tasks, disk>>

\* run_full_pipeline.py main, lines 51-63: load_and_process_pdf, exit without
\* chunks, then _delete_by_source, which answers 0 when the collection raises;
\* add_documents follows as the index call
PipelineStart ==
    /\ pc = "idle"
    /\ \E f \in Files :
        \E call \in {LoadCall(f)} :
        \E docs \in {IF f.fault = "none" THEN call.documents ELSE <<>>} :
        \E deleted \in {WithoutSource(collection, f.name)} :
        \E gone \in {IF deleted = collection THEN <<Event("get", TRUE, {})>>
                      ELSE <<Event("get", TRUE, {}), Event("delete", TRUE, {})>>} :
            /\ Size(collection) + Len(docs) <= MaxDocs
            /\ req' = Request("pipeline_ingest", None, Some(f.name), docs)
            /\ \/ /\ f.fault # "none"
                  /\ log' = <<Event("extract", FALSE, ExtractionError(f.fault))>>
                  /\ outcome' = Raised(ExtractionError(f.fault))
                  /\ pc' = "done"
                  /\ UNCHANGED <<collection, ingest>>
               \/ /\ f.fault = "none" /\ docs = <<>>
                  /\ log' = <<Event("extract", TRUE, {})>>
                  /\ outcome' = Raised(ErrExit)
                  /\ pc' = "done"
                  /\ ingest' = call
                  /\ UNCHANGED collection
               \/ /\ f.fault = "none" /\ docs # <<>>
                  /\ ingest' = call
                  /\ pc' = "call"
                  /\ outcome' = NoOutcome
                  /\ \/ /\ ~stale
                        /\ log' = <<Event("extract", TRUE, {})>> \o gone
                        /\ collection' = deleted
                     \/ /\ \E e \in (IF stale THEN {ErrMissing} ELSE OtherErrors) :
                              log' = <<Event("extract", TRUE, {}), Event("get", FALSE, e)>>
                        /\ UNCHANGED collection
    /\ UNCHANGED <<config, stale, raw, retrieved, tasks, disk>>

\* health.py:25
ErrUnavailable == {"503", "Service unavailable"}

\* health.py:17-22 over document_service.py:53-56
HealthResponse(count) ==
    [status |-> "healthy", vector_store_status |-> "connected", document_count |-> count]

\* health_check over get_collection_info and get_collection_count: the count
\* is read from the collection; a failure that names a missing collection
\* reinitialises and reads again, and a failure of that read leaves
\* get_collection_count and is answered with 503; any other failure is
\* logged and answered with the count 0
HealthCheck ==
    /\ pc = "idle"
    /\ req' = Request("health_check", None, None, <<>>)
    /\ pc' = "done"
    /\ \/ /\ ~stale
          /\ log' = <<Event("count", TRUE, {})>>
          /\ outcome' = Ok(HealthResponse(Size(collection)))
          /\ UNCHANGED stale
       \/ /\ ~stale
          /\ \E e \in OtherErrors : log' = <<Event("count", FALSE, e)>>
          /\ outcome' = Ok(HealthResponse(0))
          /\ UNCHANGED stale
       \/ /\ stale
          /\ stale' = FALSE
          /\ \/ /\ log' = <<Event("count", FALSE, ErrMissing), Event("count_reinit", TRUE, {}),
                            Event("count", TRUE, {})>>
                /\ outcome' = Ok(HealthResponse(Size(collection)))
             \/ /\ \E e \in OtherErrors :
                    log' = <<Event("count", FALSE, ErrMissing), Event("count_reinit", TRUE, {}),
                             Event("count", FALSE, e)>>
                /\ outcome' = Raised(ErrUnavailable)
    /\ UNCHANGED <<config, collection, raw, retrieved, ingest, tasks, disk>>

\* a retry loop: every "collection missing" failure reinitialises again
AfterFailure_loop(p, e) == IF IsCollectionMissing(e) THEN "reinit" ELSE "done"

\* where the adapter goes after a failed index call (the except blocks)
AfterFailure(p, e) == IF p = "call" /\ IsCollectionMissing(e) THEN "reinit" ELSE "done"

\* the underlying index call raises: ErrMissing through a stale handle
IndexCallFails ==
    /\ pc \in {"call", "retry"}
    /\ \E e \in {ErrMissing} \cup OtherErrors :
        /\ e = ErrMissing <=> stale
        /\ log' = Append(log, Event("call", FALSE, e))
        /\ pc' = AfterFailure(pc, e)
        /\ IF pc' = "done"
           THEN /\ outcome' = Raised(e)
                /\ retrieved' = IF req.op = "query" THEN Raised(e) ELSE retrieved
           ELSE UNCHANGED <<outcome, retrieved>>
    /\ UNCHANGED <<config, collection, stale, req, raw, ingest, tasks, disk>>

\* _initialize_vectorstore, called by _maybe_reinit_on_missing_collection:
\* Chroma(...) binds the handle to the live collection
Reinit ==
    /\ pc = "reinit"
    /\ stale' = FALSE
    /\ log' = Append(log, Event("reinit", TRUE, {}))
    /\ pc' = "retry"
    /\ UNCHANGED <<config, collection, req, raw, retrieved, outcome, ingest, tasks, disk>>

\* the index call of add_documents succeeds (in upload_and_process: and the
\* handler returns its result)
AddOk ==
    /\ pc \in {"call", "retry"} /\ ~stale
    /\ req.op \in {"add_documents", "upload_and_process"} \cup RoundOps
    /\ collection' = AddAll(collection, req.docs)
    /\ log' = Append(log, Event("call", TRUE, {}))
    /\ outcome' = Ok(AddResult(req))
    /\ pc' = "done"
    /\ UNCHANGED <<config, stale, req, raw, retrieved, ingest, tasks, disk>>

\* the index call of similarity_search succeeds
SearchOk ==
    /\ pc \in {"call", "retry"} /\ ~stale
    /\ req.op = "similarity_search"
    /\ \E r \in IndexReturns(req, config, collection) :
        /\ raw' = r
        /\ outcome' = Ok(r)
    /\ log' = Append(log, Event("call", TRUE, {}))
    /\ pc' = "done"
    /\ UNCHANGED <<config, collection, stale, req, retrieved, ingest, tasks, disk>>

\* the index call of Retriever.retrieve succeeds; retrieve filters, dedupes,
\* sorts and truncates, and RAGPipeline.query goes on to the empty check
RetrieveOk ==
    /\ pc \in {"call", "retry"} /\ ~stale
    /\ req.op = "query"
    /\ \E r \in IndexReturns(req, config, collection) :
        LET docs == RetrievePost(config.strategy, r, EffectiveTopK(req, config))
        IN  /\ raw' = r
            /\ retrieved' = Ok(docs)
            /\ IF IsEmptyRetrieval(docs)
               THEN pc' = "done" /\ outcome' = Ok(NotFoundAnswer)
               ELSE pc' = "llm" /\ outcome' = NoOutcome
    /\ log' = Append(log, Event("call", TRUE, {}))
    /\ UNCHANGED <<config, collection, stale, req, ingest, tasks, disk>>

\* chain.invoke returns
LLMOk ==
    /\ pc = "llm"
    /\ \E t \in LLMTexts : outcome' = Ok(Answer(t, retrieved.value))
    /\ log' = Append(log, Event("llm", TRUE, {}))
    /\ pc' = "done"
    /\ UNCHANGED <<config, collection, stale, req, raw, retrieved, ingest, tasks, disk>>

\* a failure of the model swallowed and answered with the "not found" text
LLMFails_fallback ==
    /\ pc = "llm"
    /\ outcome' = Ok(NotFoundAnswer)
    /\ log' = Append(log, Event("llm", FALSE, ErrLLM))
    /\ pc' = "done"
    /\ UNCHANGED <<config, collection, stale, req, raw, retrieved, ingest, tasks, disk>>

\* chain.invoke raises
LLMFails ==
    /\ pc = "llm"
    /\ outcome' = Raised(ErrLLM)
    /\ log' = Append(log, Event("llm", FALSE, ErrLLM))
    /\ pc' = "done"
    /\ UNCHANGED <<config, collection, stale, req, raw, retrieved, ingest, tasks, disk>>

\* the caller has the result; the next call can start
Return ==
    /\ pc = "done"
    /\ pc' = "idle"
    /\ req' = NoReq
    /\ log' = <<>>
    /\ raw' = <<>>
    /\ retrieved' = NotRetrieved
    /\ outcome' = NoOutcome
    /\ ingest' = NoIngest
    /\ UNCHANGED <<config, collection, stale, tasks, disk>>

\* the collection is deleted behind the adapter's back: the handle goes stale
CollectionDropped ==
    /\ ~stale
    /\ stale' = TRUE
    /\ collection' = EmptyCollection
    /\ UNCHANGED <<config, pc, req, log, raw, retrieved, outcome, ingest, tasks, disk>>

Next ==
    \/ StartQuery
    \/ StartAdd
    \/ StartSearch
    \/ IndexCallFails
    \/ Reinit
    \/ AddOk
    \/ SearchOk
    \/ RetrieveOk
    \/ LLMOk
    \/ LLMFails
    \/ Return
    \/ CollectionDropped
    \/ StartUpload
    \/ UploadFails
    \/ DeleteBySource
    \/ ClearAll
    \/ SmokeStart
    \/ PipelineStart
    \/ HealthCheck

Spec == Init /\ [][Next]_vars

----------------------------------------------------------------------------
(* One retrieval over each collection of at most MaxDocs chunks *)

InitRetrieve ==
    /\ config \in Configs
    /\ collection \in Collections
    /\ stale = FALSE
    /\ Idle

StartPlainQuery == QueryStarts({None})

NextRetrieve ==
    \/ StartPlainQuery
    \/ RetrieveOk

SpecRetrieve == InitRetrieve /\ [][NextRetrieve]_vars

----------------------------------------------------------------------------
(* chunk_text_by_pages over the pages of each file of at most MaxPages pages *)

InitIngest ==
    /\ config = DefaultConfig
    /\ collection = EmptyCollection
    /\ stale = FALSE
    /\ pc = "idle"
    /\ req = NoReq
    /\ log = <<>>
    /\ raw = <<>>
    /\ retrieved = NotRetrieved
    /\ outcome = NoOutcome
    /\ \E texts \in FileTexts, size \in ChunkSizes, overlap \in ChunkOverlaps :
          ingest = ChunkCall(extract_text_from_pdf(texts), "a.pdf", size, overlap)
    /\ tasks = <<>>
    /\ disk = EmptyDisk

\* chunk_text_by_pages
ChunkTextByPages ==
    /\ ~ingest.ran
    /\ ingest.chunk_size > 0
    /\ ingest' = ChunkRun(ingest)
    /\ UNCHANGED <<config, collection, stale, pc, req, log, raw, retrieved, outcome,
                   tasks, disk>>

NextIngest == ChunkTextByPages

SpecIngest == InitIngest /\ [][NextIngest]_vars

----------------------------------------------------------------------------
(* upload_and_process: MaxTasks coroutines on one event loop *)

\* document_service.py:23
ErrNotPdf == {"ValueError", "Only PDF files are supported"}
\* file.read() or f.write(content) raises
ErrIO == {"OSError", "write"}
ErrTimedOut == {"Collection", "timed out"}

\* the uploads of the model; two files share the name a.pdf
UploadFiles ==
    { File("a.pdf", <<RawProse>>, "none"),
      File("a.pdf", <<RawMid>>, "none"),
      File("b.pdf", <<RawProse, RawDef, RawShort>>, "none"),
      File("b.pdf", <<RawProse>>, "page"),
      File("notes.txt", <<RawProse>>, "none") }

\* what fails around an upload: nothing, the write of the temporary file,
\* or the index call of add_documents
IOFaults == {"none", "write", "index"}

\* a coroutine before its first step; linked says that the file it has open
\* is the file at its path, seen holds the coroutines that were suspended in
\* the with block while this one was
NewTask(file, io) ==
    [file |-> file, io |-> io, pc |-> "start", linked |-> FALSE,
     seen |-> {}, outcome |-> NoOutcome]

\* the bytes of an uploaded file
Bytes(file) == [texts |-> file.texts, fault |-> file.fault]

\* load_and_process_pdf(temp_path, ...) on what the path holds: fitz.open
\* fails on a missing and on an empty file
LoadFromDisk(onDisk, source_name) ==
    IF ~onDisk.exists \/ onDisk.data = None THEN Raised(ExtractionError("open"))
    ELSE LET bytes == The(onDisk.data)
         IN  IF bytes.fault # "none" THEN Raised(ExtractionError(bytes.fault))
             ELSE Ok(load_and_process_pdf(bytes.texts, source_name))

\* lines 33-43: the result of the try block for what load_and_process_pdf gave
TryOutcome(loaded, filename, io) ==
    IF loaded.kind = "error" THEN loaded
    ELSE IF loaded.value # <<>> /\ io = "index" THEN Raised(ErrTimedOut)
    ELSE Ok(UploadResult(filename, Len(loaded.value)))

\* lines 22-30: the filename test, open(temp_path, "wb"), which creates the
\* file or empties the one that is there, and the suspension at
\* await file.read()
UploadBegin(i) ==
    /\ tasks[i].pc = "start"
    /\ LET t == tasks[i]
           path == TempPath(t.file.name)
           suspended == {j \in DOMAIN tasks : tasks[j].pc = "reading"}
       IN  IF ~EndsWithPdf(t.file.name)
           THEN /\ tasks' = [tasks EXCEPT ![i].pc = "done",
                                          ![i].outcome = Raised(ErrNotPdf)]
                /\ UNCHANGED disk
           ELSE /\ disk' = [disk EXCEPT ![path] = Stored(None)]
                /\ tasks' = [j \in DOMAIN tasks |->
                                IF j = i
                                THEN [t EXCEPT !.pc = "reading", !.linked = TRUE,
                                               !.seen = suspended]
                                ELSE IF j \in suspended
                                THEN [tasks[j] EXCEPT !.seen = @ \cup {i}]
                                ELSE tasks[j]]
    /\ UNCHANGED <<config, collection, stale, pc, req, log, raw, retrieved, outcome, ingest>>

\* an upload that removes its temporary file only after a success
UploadResume_keepOnError(i) ==
    /\ tasks[i].pc = "reading"
    /\ LET t == tasks[i]
           path == TempPath(t.file.name)
           written == IF t.linked THEN [disk EXCEPT ![path] = Stored(Some(Bytes(t.file)))]
                      ELSE disk
       IN  \E loaded \in {LoadFromDisk(written[path], t.file.name)} :
           \E out \in {TryOutcome(loaded, t.file.name, t.io)} :
               /\ t.io # "write"
               /\ collection' = IF out.kind = "ok" THEN AddAll(collection, loaded.value)
                                 ELSE collection
               /\ disk' = IF out.kind = "ok" THEN [written EXCEPT ![path] = Absent]
                           ELSE written
               /\ tasks' = [tasks EXCEPT ![i].pc = "done", ![i].outcome = out]
    /\ UNCHANGED <<config, stale, pc, req, log, raw, retrieved, outcome, ingest>>

\* lines 30-47, run without suspension: the write of the content to the open
\* file, and when that fails the exception leaves the with block before the
\* try; else load_and_process_pdf of the path, add_documents, the result, and
\* in the finally block the removal of the path if a file is there, which
\* unlinks the file the other coroutines of that path have open
UploadResume(i) ==
    /\ tasks[i].pc = "reading"
    /\ LET t == tasks[i]
           path == TempPath(t.file.name)
           written == IF t.linked THEN [disk EXCEPT ![path] = Stored(Some(Bytes(t.file)))]
                      ELSE disk
       IN  \E loaded \in {LoadFromDisk(written[path], t.file.name)} :
           \E out \in {TryOutcome(loaded, t.file.name, t.io)} :
               IF t.io = "write"
               THEN /\ tasks' = [tasks EXCEPT ![i].pc = "done", ![i].outcome = Raised(ErrIO)]
                    /\ UNCHANGED <<collection, disk>>
               ELSE /\ collection' = IF out.kind = "ok" THEN AddAll(collection, loaded.value)
                                      ELSE collection
                    /\ disk' = [written EXCEPT ![path] = Absent]
                    /\ tasks' = [j \in DOMAIN tasks |->
                                    IF j = i
                                    THEN [t EXCEPT !.pc = "done", !.outcome = out]
                                    ELSE IF /\ tasks[j].pc = "reading"
                                            /\ TempPath(tasks[j].file.name) = path
                                    THEN [tasks[j] EXCEPT !.linked = FALSE]
                                    ELSE tasks[j]]
    /\ UNCHANGED <<config, stale, pc, req, log, raw, retrieved, outcome, ingest>>

InitUploads ==
    /\ config = DefaultConfig
    /\ collection = EmptyCollection
    /\ stale = FALSE
    /\ pc = "idle"
    /\ req = NoReq
    /\ log = <<>>
    /\ raw = <<>>
    /\ retrieved = NotRetrieved
    /\ outcome = NoOutcome
    /\ ingest = NoIngest
    /\ tasks \in [1..MaxTasks -> {NewTask(f, io) : f \in UploadFiles, io \in IOFaults}]
    /\ disk = EmptyDisk

NextUploads ==
    \E i \in DOMAIN tasks :
        \/ UploadBegin(i)
        \/ UploadResume(i)

SpecUploads == InitUploads /\ [][NextUploads]_vars

----------------------------------------------------------------------------
(* format_context over each ranked list of at most MaxRanked documents *)

\* Retriever._strip_leading_junk
strip_leading_junk(text) == strip_leading_dots(text)

\* the score part of a header: f" (score: {score:.4f})" if score else ""
ScoreText(score) == IF score # 0 THEN Some(score) ELSE None

\* format_context over (document, score) pairs: the blocks of the context
\* string in their order, each with the fields of its header line and the
\* text under it
format_context(documents) ==
    [i \in 1..Len(documents) |->
        [ordinal |-> i,
         source |-> documents[i].doc.source,
         page |-> documents[i].doc.page,
         score |-> ScoreText(documents[i].score),
         content |-> strip_leading_junk(documents[i].doc.content)]]

\* stored chunks, two of them with dots at their start
FormatDocs ==
    {Doc("a.pdf", 1, T_prose), Doc("b.pdf", 2, T_def),
     Doc("a.pdf", 2, <<Run("DOT", 3), SP, X(117)>>),
     Doc("b.pdf", 1, <<DOT, X(130)>>)}

RankedPairs == {[doc |-> d, score |-> sc] : d \in FormatDocs, sc \in Distances}

RankedLists == UNION {[1..n -> RankedPairs] : n \in 0..MaxRanked}

InitFormat ==
    /\ config = DefaultConfig
    /\ collection = EmptyCollection
    /\ stale = FALSE
    /\ pc = "llm"
    /\ req = Request("query", None, None, <<>>)
    /\ log = <<>>
    /\ raw = <<>>
    /\ retrieved \in {Ok(docs) : docs \in RankedLists}
    /\ outcome = NoOutcome
    /\ ingest = NoIngest
    /\ tasks = <<>>
    /\ disk = EmptyDisk

\* ai_summary.py:91  context = self.retriever.format_context(retrieved_docs)
FormatContext ==
    /\ pc = "llm" /\ outcome = NoOutcome
    /\ outcome' = Ok(format_context(retrieved.value))
    /\ pc' = "done"
    /\ UNCHANGED <<config, collection, stale, req, log, raw, retrieved, ingest, tasks, disk>>

NextFormat == FormatContext

SpecFormat == InitFormat /\ [][NextFormat]_vars

----------------------------------------------------------------------------
(* chunk_text_by_pages over one page of each text of at most MaxCleanLen characters *)

CleanChars == {"x", "SP", "NL", "CR", "HYPHEN"}

\* the texts of at most MaxCleanLen characters
CleanTexts ==
    UNION {{Norm([i \in 1..n |-> Run(f[i], 1)]) : f \in [1..n -> CleanChars]} :
           n \in 0..MaxCleanLen}

InitClean ==
    /\ config = DefaultConfig
    /\ collection = EmptyCollection
    /\ stale = FALSE
    /\ pc = "idle"
    /\ req = NoReq
    /\ log = <<>>
    /\ raw = <<>>
    /\ retrieved = NotRetrieved
    /\ outcome = NoOutcome
    /\ \E text \in CleanTexts :
          ingest = ChunkCall(<<[page_content |-> text, page_number |-> 1]>>, "a.pdf",
                             DefaultChunkSize, DefaultChunkOverlap)
    /\ tasks = <<>>
    /\ disk = EmptyDisk

SpecClean == InitClean /\ [][NextIngest]_vars

----------------------------------------------------------------------------
(* Vocabulary of the properties *)

NumEvents(l, ev) == Cardinality({i \in 1..Len(l) : l[i].ev = ev})

IsIndexEvent(e) == e.ev \in {"call", "reinit"}

\* the index calls and reinitialisations of the call in flight, in order
IndexLog == SelectSeq(log, IsIndexEvent)

\* the adapter method of the call in flight has returned or raised
AdapterDone == pc \in {"llm", "done"} /\ req.op # "none"

\* what the adapter method returned or raised
AdapterOutcome ==
    IF req.op = "query"
    THEN (IF retrieved.kind = "ok" THEN Ok(raw) ELSE retrieved)
    ELSE IF req.op = "upload_and_process" /\ outcome.kind = "ok"
    THEN Ok(outcome.value.chunks_created)
    ELSE outcome

\* what a successful index call makes the adapter method return
AdapterValue ==
    IF req.op \in {"add_documents", "upload_and_process"} \cup RoundOps
    THEN Len(req.docs) ELSE raw

QueryRetrieved == req.op = "query" /\ retrieved.kind = "ok"

Range(f) == {f[i] : i \in DOMAIN f}

----------------------------------------------------------------------------
(* Properties *)

\* C1: whenever Retriever.retrieve has returned an empty list to
\* RAGPipeline.query, the call is over, its result is the fixed "could not
\* find relevant information" answer with sources = [] and retrieved_docs = 0,
\* and the language model was not invoked during the call.
C1_EmptyRetrievalFixedAnswer ==
    (QueryRetrieved /\ retrieved.value = <<>>) =>
        /\ pc = "done"
        /\ outcome = Ok([answer |-> NotFoundText, sources |-> <<>>, retrieved_docs |-> 0])
        /\ NumEvents(log, "llm") = 0

\* an empty retrieval from a collection that is not empty: every candidate
\* the index returned was filtered out
C1_Witness ==
    /\ pc = "done"
    /\ QueryRetrieved /\ retrieved.value = <<>>
    /\ raw # <<>>

\* C2: an adapter call makes at most two index calls and at most one
\* reinitialisation; when its first index call fails with "collection
\* missing", it reinitialises once, then re-issues the call once, and what the
\* second call returns or raises is what the adapter method returns or raises.
C2_ReinitAndRetryOnce ==
    /\ NumEvents(log, "call") <= 2
    /\ NumEvents(log, "reinit") <= 1
    /\ (/\ AdapterDone
        /\ IndexLog # <<>>
        /\ ~IndexLog[1].ok
        /\ IndexLog[1].err = ErrMissing) =>
            /\ Len(IndexLog) = 3
            /\ IndexLog[2].ev = "reinit"
            /\ IndexLog[3].ev = "call"
            /\ AdapterOutcome =
                 IF IndexLog[3].ok THEN Ok(AdapterValue) ELSE Raised(IndexLog[3].err)

\* an add_documents whose first index call met a missing collection and whose
\* retry stored the chunks in the new collection
C2_Witness ==
    /\ AdapterDone
    /\ req.op = "add_documents"
    /\ Len(IndexLog) = 3
    /\ IndexLog[1].err = ErrMissing
    /\ IndexLog[3].ok
    /\ Size(collection) = Len(req.docs)

\* C3: when the first index call made for Retriever.retrieve fails with an
\* error other than "collection missing", the call is over after that one index
\* call, with no reinitialisation of the handle and no retry, and retrieve and
\* RAGPipeline.query raise that same error; and whenever the last index call
\* made for retrieve failed, retrieve raised its error instead of returning a
\* list.
C3_OtherIndexErrorPropagates ==
    /\ (/\ req.op = "query"
        /\ IndexLog # <<>>
        /\ ~IndexLog[1].ok
        /\ IndexLog[1].err # ErrMissing) =>
            /\ pc = "done"
            /\ log = <<Event("call", FALSE, IndexLog[1].err)>>
            /\ retrieved = Raised(IndexLog[1].err)
            /\ outcome = Raised(IndexLog[1].err)
            /\ raw = <<>>
    /\ (/\ req.op = "query"
        /\ AdapterDone
        /\ ~IndexLog[Len(IndexLog)].ok) =>
            retrieved = Raised(IndexLog[Len(IndexLog)].err)

\* a retrieval over a collection that holds chunks, failed by an error whose
\* message has "does not exist" but not "Collection"
C3_Witness ==
    /\ pc = "done"
    /\ req.op = "query"
    /\ log = <<Event("call", FALSE, {"embedding model", "does not exist"})>>
    /\ Size(collection) > 0

\* C4: RAGPipeline.query invokes the language model at most once, and when
\* that invocation fails the call is over and raises the model's error: there
\* is no second invocation and no answer.
C4_ModelInvokedOnceFailurePropagates ==
    /\ NumEvents(log, "llm") <= 1
    /\ \A i \in 1..Len(log) :
        (log[i].ev = "llm" /\ ~log[i].ok) =>
            /\ i = Len(log)
            /\ pc = "done"
            /\ outcome = Raised(log[i].err)

\* a query that retrieved documents and whose model invocation failed
C4_Witness ==
    /\ pc = "done"
    /\ QueryRetrieved /\ retrieved.value # <<>>
    /\ log[Len(log)] = Event("llm", FALSE, ErrLLM)

\* the top_k the call in flight asked for
RequestedTopK == IF req.top_k = None THEN config.top_k ELSE The(req.top_k)

\* the candidates the index returned, as [doc, score] pairs in its order
Candidates ==
    IF config.strategy = "mmr" THEN [i \in 1..Len(raw) |-> [doc |-> raw[i], score |-> 0]]
    ELSE raw

LowValue(p) == IsLowValueChunk(p.doc.content)

\* the candidates the low-value filter lets through, in the index's order
FilteredIn == SelectSeq(Candidates, KeepPair)

\* (source, page, first 120 characters of content)
NearDuplicateKey(doc) == <<doc.source, doc.page, Take(doc.content, 120)>>

\* the positions of the list F that are the first of their near-duplicate key
FirstOfKey(F) ==
    {i \in 1..Len(F) :
        \A j \in 1..(i - 1) : NearDuplicateKey(F[j].doc) # NearDuplicateKey(F[i].doc)}

\* the k-th smallest member of a set of positions
Kth(S, k) == CHOOSE i \in S : Cardinality({j \in S : j <= i}) = k

\* F restricted to the positions in FirstOfKey(F), order kept
FirstOccurrences(F) ==
    LET S == FirstOfKey(F) IN [k \in 1..Cardinality(S) |-> F[Kth(S, k)]]

\* C5: the list Retriever.retrieve returns is never longer than the requested
\* top_k, which is the configured top_k when the request carries none.
C5_AtMostTopK ==
    QueryRetrieved => Len(retrieved.value) <= RequestedTopK

\* under "mmr", no top_k in the request, more acceptable candidates than the
\* configured top_k, and exactly top_k of them returned
C5_Witness ==
    /\ QueryRetrieved
    /\ config.strategy = "mmr"
    /\ req.top_k = None
    /\ Len(FilteredIn) > config.top_k
    /\ Len(retrieved.value) = config.top_k

C7_DedupeKeepsFirstOccurrence ==
    (QueryRetrieved /\ config.strategy # "mmr") =>
        LET F == FilteredIn
            P == FirstOccurrences(F)
            res == retrieved.value
        IN  /\ Dedupe(F) = P
            /\ Range(res) \subseteq Range(P)
            /\ Len(res) = Min(RequestedTopK, Len(P))
            /\ Cardinality(Range(res)) = Len(res)

\* two acceptable candidates of different content share a key, the later one
\* is the nearer, and the earlier one is what is returned
C7_Witness ==
    /\ QueryRetrieved /\ config.strategy # "mmr"
    /\ LET F == FilteredIn
       IN  /\ Len(F) = 2
           /\ NearDuplicateKey(F[1].doc) = NearDuplicateKey(F[2].doc)
           /\ F[1].doc # F[2].doc
           /\ F[2].score < F[1].score
           /\ retrieved.value = <<F[1]>>

\* C8: under either strategy no returned document is low-value by
\* Retriever._is_low_value_chunk, and the filter runs before the truncation:
\* the list holds top_k documents whenever that many acceptable candidates
\* (one for each near-duplicate key under the similarity strategy) exist.
C8_NoLowValueReturned ==
    QueryRetrieved =>
        /\ \A i \in 1..Len(retrieved.value) : ~LowValue(retrieved.value[i])
        /\ LET F == FilteredIn
           IN  Len(retrieved.value) =
                 Min(RequestedTopK,
                     IF config.strategy = "mmr" THEN Len(F)
                     ELSE Cardinality({NearDuplicateKey(p.doc) : p \in Range(F)}))

\* a low-value candidate came first from the index, acceptable ones after it,
\* and the list is full
C8_Witness ==
    /\ QueryRetrieved
    /\ Len(Candidates) > RequestedTopK
    /\ LowValue(Candidates[1])
    /\ Len(retrieved.value) = RequestedTopK

\* a chunk ingestion would store, shorter than the generic minimum of the
\* low-value filter, with the definitional phrase "is defined as"
IsShortDefinition(text) ==
    LET n == TextLen(Strip(text))
    IN  ContainsWord(text, "is defined as") /\ n >= MinChunkLen /\ n < MinLowValueLen

\* the documents of the returned list
RetrievedDocs == {p.doc : p \in Range(retrieved.value)}

\* C9: a short definitional chunk is not rejected by the low-value filter:
\* when the index returns it among no more candidates than top_k, it is in
\* the list Retriever.retrieve returns.
C9_ShortDefinitionKept ==
    (QueryRetrieved /\ Len(Candidates) <= RequestedTopK) =>
        \A i \in 1..Len(Candidates) :
            IsShortDefinition(Candidates[i].doc.content) =>
                Candidates[i].doc \in RetrievedDocs

\* C10: when the request carries a source, every retrieved document and
\* every source citation of the answer has that source.
C10_SourceFilterHonoured ==
    (QueryRetrieved /\ req.source # None) =>
        /\ \A d \in RetrievedDocs : d.source \in req.source
        /\ (pc = "done" /\ outcome.kind = "ok") =>
              \A i \in 1..Len(outcome.value.sources) :
                  outcome.value.sources[i].source \in req.source

\* C11: in every source citation of an Answer the relevance is non-null
\* exactly when the retrieval score of that document is positive, a non-null
\* relevance lies in (0, 1], and every result of the mmr strategy has the
\* sentinel score and a null relevance.
C11_RelevanceInUnitInterval ==
    (pc = "done" /\ QueryRetrieved /\ outcome.kind = "ok") =>
        LET docs == retrieved.value
            cites == outcome.value.sources
        IN  /\ Len(cites) = Len(docs)
            /\ \A i \in 1..Len(cites) :
                /\ cites[i].relevance # None <=> docs[i].score > 0
                /\ cites[i].relevance # None =>
                      /\ The(cites[i].relevance) > 0
                      /\ The(cites[i].relevance) <= RelevanceScale
                /\ config.strategy = "mmr" =>
                      docs[i].score = 0 /\ cites[i].relevance = None

\* the lists of parts pack_text_into_chunks joined into chunks for one page:
\* those closed in the loop, then the one left at the end
PartLists(pack) ==
    [i \in 1..Len(pack.closed) |-> pack.closed[i].parts]
    \o (IF pack.current # <<>> THEN <<pack.current>> ELSE <<>>)

\* the chunk returned for a list of parts
ReturnedChunk(parts) == strip_leading_dots(JoinChunk(parts))

\* s is a suffix of t
IsSuffix(s, t) == TakeLast(t, TextLen(s)) = s

\* C13: every chunk pack_text_into_chunks returns is at most chunk_size
\* characters long, unless one of the units it was joined from is alone
\* longer than chunk_size.
C13_ChunkWithinChunkSize ==
    ingest.ran =>
        \A k \in 1..Len(ingest.packs) :
            LET lists == PartLists(ingest.packs[k])
            IN  \A i \in 1..Len(lists) :
                    \/ TextLen(ReturnedChunk(lists[i])) <= ingest.chunk_size
                    \/ \E j \in 1..Len(lists[i]) : TextLen(lists[i][j]) > ingest.chunk_size

\* C14: every document chunk_text_by_pages returns has content of at least
\* the minimum chunk length of 120 characters, and none is empty.
C14_ChunksAtLeastMinimumLength ==
    ingest.ran =>
        \A i \in 1..Len(ingest.documents) :
            /\ ingest.documents[i].content # <<>>
            /\ TextLen(ingest.documents[i].content) >= 120

\* the packing of a page returned a chunk of 80 to 119 characters, which
\* was dropped, and another chunk was kept
C14_Witness ==
    /\ ingest.ran
    /\ ingest.documents # <<>>
    /\ \E k \in 1..Len(ingest.packs) :
          \E i \in 1..Len(ingest.packs[k].chunks) :
              /\ TextLen(ingest.packs[k].chunks[i]) < 120
              /\ TextLen(ingest.packs[k].chunks[i]) >= 80

\* C15: with chunk_overlap > 0, the seed made of a closed chunk A is empty or
\* one text that is a suffix of A of at most chunk_overlap characters, and it
\* is the first part of the chunk that follows A.
C15_SeedIsSuffixOfPreviousChunk ==
    (ingest.ran /\ ingest.chunk_overlap > 0) =>
        \A k \in 1..Len(ingest.packs) :
            LET pack == ingest.packs[k]
                lists == PartLists(pack)
            IN  \A i \in 1..Len(pack.closed) :
                    LET A == pack.closed[i].chunk
                        seed == pack.closed[i].seed
                    IN  \/ seed = <<>>
                        \/ /\ Len(seed) = 1
                           /\ seed[1] # <<>>
                           /\ IsSuffix(seed[1], A)
                           /\ TextLen(seed[1]) <= ingest.chunk_overlap
                           /\ lists[i + 1][1] = seed[1]

\* a closed chunk whose tail holds a sentence boundary: the seed is the part
\* of the tail after it, shorter than the tail
C15_Witness ==
    /\ ingest.ran /\ ingest.chunk_overlap > 0
    /\ \E k \in 1..Len(ingest.packs) :
          \E i \in 1..Len(ingest.packs[k].closed) :
              LET c == ingest.packs[k].closed[i]
              IN  /\ c.seed # <<>>
                  /\ TextLen(c.seed[1]) < TextLen(Strip(TakeLast(c.chunk, ingest.chunk_overlap)))
                  /\ TextLen(c.seed[1]) < TextLen(c.chunk)

\* the pages of the call whose cleaned text is shorter than the minimum page length
ShortPages == {p \in Range(ingest.pages_content) : TextLen(clean_text(p.page_content)) < 80}

\* C16: every document chunk_text_by_pages returns carries the given source
\* and the number of a page whose cleaned text has at least 80 characters; a
\* page with a shorter cleaned text has no document.
C16_ShortPageContributesNothing ==
    ingest.ran =>
        /\ \A i \in 1..Len(ingest.documents) :
              /\ ingest.documents[i].source = ingest.source_name
              /\ \E p \in Range(ingest.pages_content) \ ShortPages :
                    p.page_number = ingest.documents[i].page
        /\ \A p \in ShortPages :
              \A i \in 1..Len(ingest.documents) : ingest.documents[i].page # p.page_number

\* a file of two pages, the first of about 1800 characters and the second of
\* 50, chunked with the default sizes: two or more documents, all of page 1
C16_Witness ==
    /\ ingest.ran
    /\ ingest.chunk_size = DefaultChunkSize /\ ingest.chunk_overlap = DefaultChunkOverlap
    /\ Len(ingest.pages_content) = 2
    /\ ingest.pages_content[1].page_content = RawLong
    /\ ingest.pages_content[2].page_content = RawShort
    /\ Len(ingest.documents) >= 2

\* C12: when the index holds at least one chunk and a query with an effective
\* top_k of at least 1 returns, its result has retrieved_docs > 0 and as many
\* sources.
C12_IngestedChunkIsRetrieved ==
    (/\ pc = "done" /\ req.op = "query" /\ outcome.kind = "ok"
     /\ req.source = None
     /\ Size(collection) >= 1
     /\ EffectiveTopK(req, config) >= 1)
        => /\ outcome.value.retrieved_docs > 0
           /\ Len(outcome.value.sources) = outcome.value.retrieved_docs

\* how often d occurs in docs
Occurrences(docs, d) == Cardinality({i \in DOMAIN docs : docs[i] = d})

\* the delete of a round has removed the chunks of the source
Deleted(l) ==
    /\ \E i \in DOMAIN l : l[i].ev = "get" /\ l[i].ok
    /\ \A i \in DOMAIN l : l[i].ev = "delete" => l[i].ok

\* the delete of a round has returned and its file has been read
RoundDeleted == pc = "idle" /\ pc' = "call" /\ req'.op \in RoundOps /\ Deleted(log')

\* the add of a round whose delete removed the chunks has returned
RoundAdded ==
    /\ pc \in {"call", "retry"} /\ pc' = "done"
    /\ req.op \in RoundOps /\ outcome'.kind = "ok" /\ Deleted(log)

\* C17: a round that deletes the chunks of a source and ingests the file
\* again leaves, for that source, exactly the chunks of the file, each as often
\* as chunk_text_by_pages yields it, whatever the index held for the source
\* before: the number and the contents are the same every round and the
\* collection does not grow.
C17_ReingestIsIdempotent ==
    [][/\ RoundDeleted =>
            \A d \in Docs :
                collection'[d] = IF d.source = The(req'.source) THEN 0 ELSE collection[d]
       /\ RoundAdded =>
            LET s == The(req.source)
                docs == chunk_text_by_pages(ingest.pages_content, s,
                                            DefaultChunkSize, DefaultChunkOverlap)
            IN  /\ outcome'.value = Len(docs)
                /\ \A d \in Docs :
                     collection'[d] = IF d.source = s THEN Occurrences(docs, d)
                                      ELSE collection[d]]_vars

\* a later round over a source: it deleted chunks and the source has again
\* the two chunks of the file
C17_Witness ==
    /\ pc = "done" /\ req.op \in RoundOps /\ outcome.kind = "ok"
    /\ Deleted(log) /\ NumEvents(log, "delete") = 1
    /\ outcome.value = 2
    /\ SourceCount(collection, The(req.source)) = 2
    /\ Size(collection) = 2

\* delete_by_source has returned a count
DeleteReturned ==
    pc = "idle" /\ pc' = "done" /\ req'.op = "delete_by_source" /\ outcome'.kind = "ok"

\* C18: delete_by_source(s) removes exactly the chunks whose source is s and
\* returns how many they were; the other chunks stay; with no chunk of s it
\* returns 0 and leaves the index as it was.
C18_DeleteBySourceRemovesExactlySource ==
    [][DeleteReturned =>
        LET s == The(req'.source)
        IN  /\ outcome'.value = SourceCount(collection, s)
            /\ \A d \in Docs :
                 collection'[d] = IF d.source = s THEN 0 ELSE collection[d]
            /\ (SourceCount(collection, s) = 0
                    => outcome'.value = 0 /\ collection' = collection)]_vars

\* a delete that removed a chunk and left one of another source
C18_Witness ==
    /\ pc = "done" /\ req.op = "delete_by_source" /\ outcome.kind = "ok"
    /\ outcome.value = 1
    /\ Size(collection) = 1
    /\ SourceCount(collection, The(req.source)) = 0

\* clear_all has returned a count
ClearReturned ==
    pc = "idle" /\ pc' = "done" /\ req'.op = "clear_all" /\ outcome'.kind = "ok"

\* C19: clear_all removes every chunk and returns how many they were (0 for an
\* empty index); the index is empty afterwards and the collection still
\* exists, so the handle in use stays valid.
C19_ClearAllEmptiesAndKeepsCollection ==
    [][ClearReturned =>
        /\ outcome'.value = Size(collection)
        /\ Size(collection') = 0
        /\ ~stale'
        /\ stale' = stale]_vars

\* a clear_all that removed chunks
C19_Witness ==
    /\ pc = "done" /\ req.op = "clear_all" /\ outcome.kind = "ok"
    /\ outcome.value = 2
    /\ Size(collection) = 0
    /\ ~stale

\* the extraction of the file of an ingestion has failed
ExtractionFailed(l) == \E i \in DOMAIN l : l[i].ev = "extract" /\ ~l[i].ok

\* C20: when the extraction fails the ingestion fails as a whole: the caller
\* gets an error, no chunk is returned, add_documents is not called and no
\* chunk is added; after upload_and_process the index is as before the call.
C20_ExtractionFailureAddsNothing ==
    [][(pc = "idle" /\ pc' = "done" /\ ExtractionFailed(log')) =>
        /\ outcome'.kind = "error"
        /\ req'.docs = <<>>
        /\ NumEvents(log', "call") = 0
        /\ NumEvents(log', "extract") = 1
        /\ \A d \in Docs : collection'[d] <= collection[d]
        /\ (req'.op = "upload_and_process" => collection' = collection)]_vars

\* an upload into a non-empty index failed on the extraction
C20_Witness ==
    /\ pc = "done" /\ req.op = "upload_and_process"
    /\ outcome.kind = "error"
    /\ ExtractionFailed(log)
    /\ Size(collection) > 0

\* an upload has read its file and the chunking gave no chunk
UploadWithoutChunks ==
    /\ pc = "idle" /\ req'.op = "upload_and_process"
    /\ ~ExtractionFailed(log')
    /\ ingest'.ran /\ ingest'.documents = <<>>

\* C21: an upload whose file has no valid page, or only chunks under the
\* minimum length, is no error: the chunking returns no chunk, add_documents
\* returns without an index call, the index stays as it was, and the upload
\* reports success with chunks_created = 0.
C21_EmptyIngestionSucceeds ==
    [][UploadWithoutChunks =>
        /\ pc' = "done"
        /\ req'.docs = <<>>
        /\ NumEvents(log', "call") = 0
        /\ collection' = collection
        /\ outcome' = Ok([status |-> "success",
                          filename |-> The(req'.source),
                          chunks_created |-> 0])]_vars

\* an upload into a non-empty index of a file whose only chunk is under the
\* minimum length
C21_Witness ==
    /\ pc = "done" /\ req.op = "upload_and_process"
    /\ outcome.kind = "ok" /\ outcome.value.chunks_created = 0
    /\ Len(ingest.packs) = 1 /\ ingest.packs[1].chunks # <<>>
    /\ ingest.documents = <<>>
    /\ Size(collection) > 0

\* the last read of the count gave the count
CountObtained(l) == l # <<>> /\ l[Len(l)].ev = "count" /\ l[Len(l)].ok

\* C30: when the read of the index count fails health_check answers 503
\* "Service unavailable"; it answers healthy and connected only when the count
\* came from the index.
C30_HealthyOnlyWithCount ==
    (pc = "done" /\ req.op = "health_check")
        => /\ ~CountObtained(log) => outcome = Raised(ErrUnavailable)
           /\ outcome.kind = "ok" => CountObtained(log)

\* the sentence boundaries of a text: the full stops with whitespace after them
Boundaries(t) == {j \in 1..(Len(t) - 1) : t[j].c = "DOT" /\ IsSpace(t[j + 1].c)}

\* the text after position j of t
After(t, j) == Strip(SubSeq(t, j + 1, Len(t)))

\* C24: when the last chunk_overlap characters of a closed chunk hold a
\* sentence boundary, the seed apply_overlap makes of the chunk is the text
\* after one of the boundaries, so it starts a sentence; only a tail without
\* boundary is used as it is.
C24_SeedStartsAtSentenceBoundary ==
    (ingest.ran /\ ingest.chunk_overlap > 0) =>
        \A k \in 1..Len(ingest.packs) :
            \A i \in 1..Len(ingest.packs[k].closed) :
                LET c == ingest.packs[k].closed[i]
                    tail == Strip(TakeLast(c.chunk, ingest.chunk_overlap))
                IN  IF Boundaries(tail) # {}
                    THEN \E j \in Boundaries(tail) : c.seed = <<After(tail, j)>>
                    ELSE c.seed = IF tail = <<>> THEN <<>> ELSE <<tail>>

\* u occurs in t as a run of consecutive characters (both run-length encoded
\* without equal neighbours)
IsInfix(u, t) ==
    \/ u = <<>>
    \/ \E i \in 1..Len(t) :
        LET j == i + Len(u) - 1
        IN  /\ j <= Len(t)
            /\ \A m \in 1..Len(u) :
                 /\ t[i + m - 1].c = u[m].c
                 /\ IF m = 1 \/ m = Len(u) THEN t[i + m - 1].n >= u[m].n
                    ELSE t[i + m - 1].n = u[m].n

RECURSIVE Flatten(_)
Flatten(lists) == IF lists = <<>> THEN <<>> ELSE Head(lists) \o Flatten(Tail(lists))

\* the packable units of a page, as pack_text_into_chunks takes them
UnitTexts(pack) ==
    LET units == PackUnits(split_into_paragraphs(pack.cleaned), ingest.chunk_size)
    IN  [n \in 1..Len(units) |-> units[n].text]

\* the parts of each chunk of a page that are not the seed it started from
FreshParts(pack) ==
    LET lists == PartLists(pack)
    IN  [i \in 1..Len(lists) |->
            SubSeq(lists[i],
                   (IF i = 1 THEN 0 ELSE Len(pack.closed[i - 1].seed)) + 1,
                   Len(lists[i]))]

OnlyDotsAndBlanks(t) == \A i \in 1..Len(t) : t[i].c = "DOT" \/ IsSpace(t[i].c)

\* C25 as stated: every packable unit occurs whole in a chunk that
\* pack_text_into_chunks returns.
C25_EveryUnitInReturnedChunk ==
    ingest.ran =>
        \A k \in 1..Len(ingest.packs) :
            LET pack == ingest.packs[k]
                units == UnitTexts(pack)
            IN  ~pack.skipped =>
                    \A n \in 1..Len(units) :
                        \E i \in 1..Len(pack.chunks) : IsInfix(units[n], pack.chunks[i])

\* C25, amended: the packing drops and cuts nothing: the parts the chunks are
\* joined from, their seeds left out, are the packable units, whole and in
\* their order; a returned chunk is the join of its parts without the dots and
\* blanks it started with.
C25_UnitsKeptWholeInOrder ==
    ingest.ran =>
        \A k \in 1..Len(ingest.packs) :
            LET pack == ingest.packs[k]
                lists == PartLists(pack)
            IN  ~pack.skipped =>
                    /\ Flatten(FreshParts(pack)) = UnitTexts(pack)
                    /\ Len(pack.chunks) = Len(lists)
                    /\ \A i \in 1..Len(lists) :
                         LET joined == JoinChunk(lists[i])
                             chunk == pack.chunks[i]
                         IN  /\ IsSuffix(chunk, joined)
                             /\ OnlyDotsAndBlanks(
                                    Take(joined, TextLen(joined) - TextLen(chunk)))

\* a file with a page packed into several chunks and a page whose chunk
\* lost its leading dots
C25_Witness ==
    /\ ingest.ran
    /\ \E k \in 1..Len(ingest.packs) : Len(ingest.packs[k].closed) >= 2
    /\ \E k \in 1..Len(ingest.packs) :
          LET pack == ingest.packs[k]
          IN  /\ pack.chunks # <<>>
              /\ pack.chunks[1] # JoinChunk(PartLists(pack)[1])

\* C26: every chunk of pack_text_into_chunks is joined from at least one
\* packable unit that is in no earlier chunk: none is made of the seed alone,
\* whatever the overlap.
C26_NoChunkOfSeedAlone ==
    ingest.ran =>
        \A k \in 1..Len(ingest.packs) :
            LET fresh == FreshParts(ingest.packs[k])
            IN  \A i \in 1..Len(fresh) : fresh[i] # <<>>

\* a chunk that starts from a seed and goes on with a unit, the seed and the
\* unit together longer than chunk_size
C26_Witness ==
    /\ ingest.ran /\ ingest.chunk_overlap > 0
    /\ \E k \in 1..Len(ingest.packs) :
          LET pack == ingest.packs[k]
              lists == PartLists(pack)
          IN  /\ Len(pack.closed) >= 2
              /\ pack.closed[1].seed # <<>>
              /\ Len(lists[2]) = 2
              /\ current_len(lists[2]) > ingest.chunk_size

\* the line breaks of the input that separate paragraphs: the runs of two or
\* more breaks with text before and after them
Separators(text) ==
    LET t == ReplaceCR(Norm(text))
    IN  {i \in 1..Len(t) :
            /\ t[i].c = "NL" /\ t[i].n >= 2
            /\ \E j \in 1..(i - 1) : ~IsSpace(t[j].c)
            /\ \E j \in (i + 1)..Len(t) : ~IsSpace(t[j].c)}

\* C28: the text clean_text returns has line breaks only in pairs, no carriage
\* return, no two spaces in a row and no blank at its start or end, and is
\* empty for the empty text; every blank line between two paragraphs of the
\* input is a pair of line breaks of the output, and the output has no other.
C28_CleanTextNormalForm ==
    ingest.ran =>
        \A k \in 1..Len(ingest.packs) :
            LET text == ingest.pages_content[k].page_content
                out == ingest.packs[k].cleaned
            IN  /\ \A i \in 1..Len(out) :
                     /\ out[i].c = "NL" => out[i].n = 2
                     /\ out[i].c = "SP" => out[i].n = 1
                     /\ out[i].c # "CR"
                     /\ i < Len(out) => out[i].c # out[i + 1].c
                /\ out # <<>> => ~IsSpace(out[1].c) /\ ~IsSpace(out[Len(out)].c)
                /\ text = <<>> => out = <<>>
                /\ Cardinality({i \in 1..Len(out) : out[i].c = "NL"})
                     = Cardinality(Separators(text))

\* two paragraphs with three line breaks between them
C28_Witness ==
    /\ ingest.ran
    /\ ingest.pages_content[1].page_content = <<X(1), Run("NL", 3), X(1)>>
    /\ ingest.packs[1].cleaned = <<X(1), PARA, X(1)>>

\* C27: the context has one block for each ranked document, in their order:
\* block i has the ordinal i, the source and the page of document i, the
\* score of document i whenever the pair holds one, and the content of the
\* document without the dots it starts with.
C27_ContextBlockPerDocument ==
    (pc = "done" /\ req.op = "query" /\ retrieved.kind = "ok"
     /\ outcome.kind = "ok" /\ log = <<>>) =>
        LET docs == retrieved.value
            blocks == outcome.value
        IN  /\ Len(blocks) = Len(docs)
            /\ \A i \in 1..Len(docs) :
                 /\ blocks[i].ordinal = i
                 /\ blocks[i].source = docs[i].doc.source
                 /\ blocks[i].page = docs[i].doc.page
                 /\ blocks[i].score = Some(docs[i].score)
                 /\ IsSuffix(blocks[i].content, docs[i].doc.content)
                 /\ (blocks[i].content = <<>> \/ blocks[i].content[1].c # "DOT")

\* the coroutines between the creation of their temporary file and its removal
InFlight == {i \in DOMAIN tasks : tasks[i].pc = "reading"}

\* C22: no two upload_and_process executions of one filename are between the
\* write of the temporary file and its removal at the same time.
C22_OneIngestionPerSource ==
    \A i, j \in InFlight : i # j => tasks[i].file.name # tasks[j].file.name

\* what upload_and_process gives for a task that runs with no other
Alone(t) ==
    IF ~EndsWithPdf(t.file.name) THEN Raised(ErrNotPdf)
    ELSE IF t.io = "write" THEN Raised(ErrIO)
    ELSE IF t.file.fault # "none" THEN Raised(ExtractionError(t.file.fault))
    ELSE LET docs == load_and_process_pdf(t.file.texts, t.file.name)
         IN  IF docs # <<>> /\ t.io = "index" THEN Raised(ErrTimedOut)
             ELSE Ok([status |-> "success", filename |-> t.file.name,
                      chunks_created |-> Len(docs)])

\* the chunks a task adds when it runs with no other
AloneDocs(t) ==
    IF Alone(t).kind = "ok" THEN load_and_process_pdf(t.file.texts, t.file.name) ELSE <<>>

\* the index after the first n tasks, run one after the other
RECURSIVE SequentialIndex(_)
SequentialIndex(n) ==
    IF n = 0 THEN EmptyCollection
    ELSE AddAll(SequentialIndex(n - 1), AloneDocs(tasks[n]))

AllDone == tasks # <<>> /\ \A i \in DOMAIN tasks : tasks[i].pc = "done"

DifferentNames == \A i, j \in DOMAIN tasks : i # j => tasks[i].file.name # tasks[j].file.name

\* C23: uploads of different filenames do not disturb each other: however
\* their steps interleave, each ends with the outcome it has when it runs
\* alone, and the index ends as after the uploads run one after the other.
C23_DifferentSourcesIndependent ==
    (AllDone /\ DifferentNames) =>
        /\ \A i \in DOMAIN tasks : tasks[i].outcome = Alone(tasks[i])
        /\ collection = SequentialIndex(Len(tasks))

\* two uploads of different files, each suspended while the other was, both
\* with chunks in the index
C23_Witness ==
    /\ AllDone /\ DifferentNames
    /\ \A i \in DOMAIN tasks :
          /\ tasks[i].seen # {}
          /\ tasks[i].outcome.kind = "ok"
          /\ tasks[i].outcome.value.chunks_created > 0
    /\ Size(collection) >= 3

\* task i ends in this step
Ends(i) == tasks[i].pc # "done" /\ tasks'[i].pc = "done"

============================================================================
